---- MODULE Spec2Model ----
(***************************************************************************)
(* QA-Genius core: column role resolution (core/transformer.py),           *)
(* transformation application (core/transformer.py), phone normalisation   *)
(* (core/transformer.py) and dimension scoring (core/gx_validator_new.py). *)
(*                                                                         *)
(* Strings the program inspects are sequences of one-character strings.    *)
(* A cell value is a record [kind, num, str]: a missing value, a number    *)
(* (int/float cell) or a text cell.                                        *)
(***************************************************************************)
EXTENDS Integers, Sequences, FiniteSets, TLC

VARIABLES
    ph_pc,        \* phone round trip: "start" | "cleaned" | "validated"
    phone_str,    \* the argument of clean_phone_number
    formatted,    \* what clean_phone_number returned
    phone_ok,     \* what validate_phone_number returned on it
    v_pc,         \* validate_dataset: "import" | "start" | "rules" | "done" |
                  \* "raised ImportError"
    df,           \* the table handed to validate_dataset: a sequence of columns
    ge,           \* the rule-evaluation backend of this run (see GeBackends)
    project_id,   \* the project the run belongs to
    v_pos,        \* full mode: 0-based index of the next (column, rule) pair
    summary,      \* the RuleResults appended so far
    validation_rules,  \* the rows of the store's validation_rules table
    v_runs,       \* the calls of validate_dataset that have returned before
    r_pc,         \* detect_column_mappings: "start" | "fuzzy" | "relaxed" | "ask" |
                  \* "ask_optional" | "returned" | "raised EOFError", then
                  \* apply_transformations: "mapping rows" | "returned df_clean"
    headers,      \* mapping_df.columns
    RAPIDFUZZ_AVAILABLE,  \* whether the rapidfuzz import succeeded
    column_map,   \* the role -> header dictionary being built
    exact_map,    \* what Tier 1 returned in this run
    tiers_run,    \* the tiers entered so far, in order
    ask_pos,      \* Tier 3: 1-based index of the role being asked for
    user_input,   \* Tier 3: the last answer read, stripped
    t_pc,         \* apply_transformations: "start" | "rows" | "returned" |
                  \* "raised KeyError"
    source_table, \* the df argument
    mapping_rows, \* the rows of mapping_df, read through the resolved roles
    df_clean,     \* the phone-cleaned copy of df
    renamed,      \* the derived table in progress
    row_pos,      \* 1-based index of the next mapping row
    evaluated,    \* the rows whose transformation expression was evaluated
    conditional_applied,  \* the rows whose conditional rule produced the target
    derived_table, \* what apply_transformations returned
    clock,        \* the instant datetime.today() gives, within one date
    calls,        \* the calls of apply_transformations that have returned before
    previous_table \* what the call before this one returned

phoneVars == <<ph_pc, phone_str, formatted, phone_ok>>
validateVars == <<v_pc, df, ge, project_id, v_pos, summary, validation_rules, v_runs>>
transformVars == <<t_pc, source_table, mapping_rows, df_clean, renamed, row_pos,
                   evaluated, conditional_applied, derived_table>>
roleVars == <<r_pc, headers, RAPIDFUZZ_AVAILABLE, column_map, exact_map, tiers_run,
              ask_pos, user_input>>
vars == <<ph_pc, phone_str, formatted, phone_ok,
          v_pc, df, ge, project_id, v_pos, summary, validation_rules, v_runs,
          r_pc, headers, RAPIDFUZZ_AVAILABLE, column_map, exact_map, tiers_run,
          ask_pos, user_input,
          t_pc, source_table, mapping_rows, df_clean, renamed, row_pos, evaluated,
          conditional_applied, derived_table, clock, calls, previous_table>>

\* what the steps of one function leave alone: the state of the others
callVars == <<clock, calls, previous_table>>
otherThanPhone == <<validateVars, roleVars, transformVars, callVars>>
otherThanValidate == <<phoneVars, roleVars, transformVars, callVars>>
otherThanRoles == <<phoneVars, validateVars, transformVars, callVars>>
otherThanTransform == <<phoneVars, validateVars, roleVars, callVars>>
otherThanCalls == <<phoneVars, validateVars, roleVars>>

----------------------------------------------------------------------------
(* Cell values *)

Null == [kind |-> "null", num |-> 0, str |-> <<>>]
Num(n) == [kind |-> "num", num |-> n, str |-> <<>>]
Str(s) == [kind |-> "str", num |-> 0, str |-> s]

----------------------------------------------------------------------------
(* Characters and the str methods the program uses *)

DigitChars == <<"0", "1", "2", "3", "4", "5", "6", "7", "8", "9">>
UpperChars == <<"A", "B", "C", "D", "E", "F", "G", "H", "I", "J", "K", "L", "M",
                "N", "O", "P", "Q", "R", "S", "T", "U", "V", "W", "X", "Y", "Z">>
LowerChars == <<"a", "b", "c", "d", "e", "f", "g", "h", "i", "j", "k", "l", "m",
                "n", "o", "p", "q", "r", "s", "t", "u", "v", "w", "x", "y", "z">>

SeqRange(s) == {s[i] : i \in 1..Len(s)}

IsDigit(c) == c \in SeqRange(DigitChars)
IsUpper(c) == c \in SeqRange(UpperChars)
IsAlpha(c) == c \in SeqRange(UpperChars) \cup SeqRange(LowerChars)
IsSpace(c) == c = " "
IsWord(c) == IsAlpha(c) \/ IsDigit(c) \/ c = "_"

LowerChar(c) ==
    IF IsUpper(c)
    THEN LowerChars[CHOOSE i \in 1..26 : UpperChars[i] = c]
    ELSE c

UpperChar(c) ==
    IF c \in SeqRange(LowerChars)
    THEN UpperChars[CHOOSE i \in 1..26 : LowerChars[i] = c]
    ELSE c

\* str.lower()
StrLower(s) == [i \in 1..Len(s) |-> LowerChar(s[i])]

\* str.upper()
StrUpper(s) == [i \in 1..Len(s) |-> UpperChar(s[i])]

RECURSIVE LStrip(_)
LStrip(s) == IF s /= <<>> /\ IsSpace(Head(s)) THEN LStrip(Tail(s)) ELSE s

RECURSIVE RStrip(_)
RStrip(s) ==
    IF s /= <<>> /\ IsSpace(s[Len(s)]) THEN RStrip(SubSeq(s, 1, Len(s) - 1)) ELSE s

\* str.strip()
StrStrip(s) == RStrip(LStrip(s))

\* pattern in text
Contains(text, pattern) ==
    \E i \in 1..(Len(text) - Len(pattern) + 1) :
        SubSeq(text, i, i + Len(pattern) - 1) = pattern

\* text.startswith(pattern)
StartsWith(text, pattern) ==
    Len(text) >= Len(pattern) /\ SubSeq(text, 1, Len(pattern)) = pattern

\* the characters of s that satisfy Keep, in order
RECURSIVE KeepDigits(_)
KeepDigits(s) ==
    IF s = <<>> THEN <<>>
    ELSE IF IsDigit(Head(s)) THEN <<Head(s)>> \o KeepDigits(Tail(s))
    ELSE KeepDigits(Tail(s))

\* s.replace(c, '') for a one-character c
RECURSIVE RemoveChar(_, _)
RemoveChar(s, c) ==
    IF s = <<>> THEN <<>>
    ELSE IF Head(s) = c THEN RemoveChar(Tail(s), c)
    ELSE <<Head(s)>> \o RemoveChar(Tail(s), c)

\* str.isdigit(): non-empty and all digits
StrIsDigit(s) == s /= <<>> /\ \A i \in 1..Len(s) : IsDigit(s[i])

\* the decimal digits of a natural number
RECURSIVE NatToChars(_)
NatToChars(n) ==
    IF n < 10 THEN <<DigitChars[n + 1]>>
    ELSE NatToChars(n \div 10) \o <<DigitChars[(n % 10) + 1]>>

\* str(value) of a non-missing cell
StrOf(v) ==
    IF v.kind = "str" THEN v.str
    ELSE IF v.num < 0 THEN <<"-">> \o NatToChars(0 - v.num)
    ELSE NatToChars(v.num)

\* pd.isna(value)
IsNa(v) == v.kind = "null"

----------------------------------------------------------------------------
(* clean_phone_number / validate_phone_number *)

\* index of the first position >= i holding a character that is not whitespace
RECURSIVE SkipSpaces(_, _)
SkipSpaces(s, i) ==
    IF i <= Len(s) /\ IsSpace(s[i]) THEN SkipSpaces(s, i + 1) ELSE i

\* index after the run of digits that starts at i (i itself when there is none)
RECURSIVE SkipDigits(_, _)
SkipDigits(s, i) ==
    IF i <= Len(s) /\ IsDigit(s[i]) THEN SkipDigits(s, i + 1) ELSE i

\* the rest of r'\.?\s*\d+' from position i: the index after the match, 0 if none
ExtTailEnd(s, i) ==
    LET afterDot(j) == LET k == SkipSpaces(s, j)
                       IN IF SkipDigits(s, k) > k THEN SkipDigits(s, k) ELSE 0
    IN IF i <= Len(s) /\ s[i] = "." /\ afterDot(i + 1) > 0
       THEN afterDot(i + 1)
       ELSE afterDot(i)

\* whether the lower-cased text has word w at position i
HasWordAt(s, i, w) ==
    i + Len(w) - 1 <= Len(s) /\ StrLower(SubSeq(s, i, i + Len(w) - 1)) = w

\* r'(?i)\s*(x|ext|extension)\.?\s*\d+' matched at position i: the index after
\* the match, 0 when it does not match there
ExtMatchEnd(s, i) ==
    LET j == SkipSpaces(s, i)
        try(w) == IF HasWordAt(s, j, w) THEN ExtTailEnd(s, j + Len(w)) ELSE 0
    IN IF try(<<"x">>) > 0 THEN try(<<"x">>)
       ELSE IF try(<<"e", "x", "t">>) > 0 THEN try(<<"e", "x", "t">>)
       ELSE try(<<"e", "x", "t", "e", "n", "s", "i", "o", "n">>)

\* re.sub(r'(?i)\s*(x|ext|extension)\.?\s*\d+', '', phone), scanning from i
RECURSIVE RemoveExtensionsFrom(_, _)
RemoveExtensionsFrom(s, i) ==
    IF i > Len(s) THEN <<>>
    ELSE IF ExtMatchEnd(s, i) > 0 THEN RemoveExtensionsFrom(s, ExtMatchEnd(s, i))
    ELSE <<s[i]>> \o RemoveExtensionsFrom(s, i + 1)

RemoveExtensions(s) == RemoveExtensionsFrom(s, 1)

\* digits_only of clean_phone_number
CleanDigits(v) == KeepDigits(RemoveExtensions(StrStrip(StrOf(v))))

\* clean_phone_number with the 11-digit branch slicing as the 10-digit branch
\* does (the leading country code is not dropped)
CleanPhoneKeepsCountryCode(v) ==
    IF IsNa(v) \/ v = Str(<<>>) THEN v
    ELSE LET d == CleanDigits(v)
         IN IF Len(d) = 10
            THEN Str(<<"+", "1", "-">> \o SubSeq(d, 1, 3) \o <<"-">>
                     \o SubSeq(d, 4, 6) \o <<"-">> \o SubSeq(d, 7, 10))
            ELSE IF Len(d) = 11 /\ StartsWith(d, <<"1">>)
            THEN Str(<<"+", "1", "-">> \o SubSeq(d, 1, 3) \o <<"-">>
                     \o SubSeq(d, 4, 6) \o <<"-">> \o SubSeq(d, 7, 11))
            ELSE IF Len(d) = 7
            THEN Str(<<"+", "1", "-", "0", "0", "0", "-">> \o SubSeq(d, 1, 3)
                     \o <<"-">> \o SubSeq(d, 4, 7))
            ELSE v

clean_phone_number(v) ==
    IF IsNa(v) \/ v = Str(<<>>) THEN v
    ELSE LET d == CleanDigits(v)
         IN IF Len(d) = 10
            THEN Str(<<"+", "1", "-">> \o SubSeq(d, 1, 3) \o <<"-">>
                     \o SubSeq(d, 4, 6) \o <<"-">> \o SubSeq(d, 7, 10))
            ELSE IF Len(d) = 11 /\ StartsWith(d, <<"1">>)
            THEN Str(<<"+", "1", "-">> \o SubSeq(d, 2, 4) \o <<"-">>
                     \o SubSeq(d, 5, 7) \o <<"-">> \o SubSeq(d, 8, 11))
            ELSE IF Len(d) = 7
            THEN Str(<<"+", "1", "-", "0", "0", "0", "-">> \o SubSeq(d, 1, 3)
                     \o <<"-">> \o SubSeq(d, 4, 7))
            ELSE v

\* re.match(r'^\+1-\d{3}-\d{3}-\d{4}$', s)
MatchesStandardPhone(s) ==
    /\ Len(s) = 15
    /\ SubSeq(s, 1, 3) = <<"+", "1", "-">>
    /\ \A i \in {4, 5, 6, 8, 9, 10, 12, 13, 14, 15} : IsDigit(s[i])
    /\ s[7] = "-" /\ s[11] = "-"

validate_phone_number(v) ==
    IF IsNa(v) \/ v = Str(<<>>) THEN FALSE
    ELSE MatchesStandardPhone(StrOf(v))

----------------------------------------------------------------------------
(* Tables: a sequence of columns [name, values], all of the same length *)

Min(a, b) == IF a <= b THEN a ELSE b

\* len(df)
NRows(table) == IF table = <<>> THEN 0 ELSE Len(table[1].values)

\* series.dropna()
RECURSIVE DropNa(_)
DropNa(values) ==
    IF values = <<>> THEN <<>>
    ELSE IF IsNa(Head(values)) THEN DropNa(Tail(values))
    ELSE <<Head(values)>> \o DropNa(Tail(values))

\* series.isnull().sum()
NullCount(values) == Len(values) - Len(DropNa(values))

\* series.dtype == 'object': the column holds text
IsObjectColumn(values) == \E i \in 1..Len(values) : values[i].kind = "str"

\* a numeric column with a missing value is a float column: 1 reads "1.0"
IsFloatColumn(values) ==
    ~IsObjectColumn(values) /\ \E i \in 1..Len(values) : IsNa(values[i])

\* str(value) of a cell of the column
CellStr(values, v) ==
    IF v.kind = "num" /\ IsFloatColumn(values)
    THEN StrOf(v) \o <<".", "0">>
    ELSE StrOf(v)

\* number of positions of a sequence that satisfy a test
CountOf(s, Test(_)) == Cardinality({i \in 1..Len(s) : Test(s[i])})

----------------------------------------------------------------------------
(* detect_phone_columns *)

phone_keywords ==
    << <<"p", "h", "o", "n", "e">>, <<"t", "e", "l">>,
       <<"t", "e", "l", "e", "p", "h", "o", "n", "e">>,
       <<"m", "o", "b", "i", "l", "e">>, <<"c", "e", "l", "l">>,
       <<"c", "o", "n", "t", "a", "c", "t">>, <<"n", "u", "m", "b", "e", "r">> >>

DigitsAt(s, i, k) ==
    i >= 1 /\ i + k - 1 <= Len(s) /\ \A j \in i..(i + k - 1) : IsDigit(s[j])

CharAt(s, i, chars) == i >= 1 /\ i <= Len(s) /\ s[i] \in chars

\* r'\(\d{3}\)\s*\d{3}[-\s]?\d{4}'
SearchParenPhone(s) ==
    \E i \in 1..Len(s) :
        /\ CharAt(s, i, {"("}) /\ DigitsAt(s, i + 1, 3) /\ CharAt(s, i + 4, {")"})
        /\ LET j == SkipSpaces(s, i + 5)
           IN /\ DigitsAt(s, j, 3)
              /\ \/ CharAt(s, j + 3, {"-", " "}) /\ DigitsAt(s, j + 4, 4)
                 \/ DigitsAt(s, j + 3, 4)

\* r'\d{3}[-\s]\d{3}[-\s]\d{4}'
SearchDashedPhone(s) ==
    \E i \in 1..Len(s) :
        /\ DigitsAt(s, i, 3) /\ CharAt(s, i + 3, {"-", " "})
        /\ DigitsAt(s, i + 4, 3) /\ CharAt(s, i + 7, {"-", " "})
        /\ DigitsAt(s, i + 8, 4)

\* r'\+?1?[-\s]?\d{10}' and r'\d{10}': both need ten digits in a row
SearchTenDigits(s) == \E i \in 1..Len(s) : DigitsAt(s, i, 10)

\* r'\d{3}\.\d{3}\.\d{4}'
SearchDottedPhone(s) ==
    \E i \in 1..Len(s) :
        /\ DigitsAt(s, i, 3) /\ CharAt(s, i + 3, {"."})
        /\ DigitsAt(s, i + 4, 3) /\ CharAt(s, i + 7, {"."})
        /\ DigitsAt(s, i + 8, 4)

\* the test of one sampled value
LooksLikePhone(s) ==
    /\ Len(KeepDigits(s)) \in {7, 10, 11}
    /\ \/ SearchParenPhone(s) \/ SearchDashedPhone(s)
       \/ SearchTenDigits(s) \/ SearchDottedPhone(s)

\* df[col].dropna().head(10).astype(str)
PhoneSample(values) ==
    LET nn == DropNa(values)
    IN [i \in 1..Min(10, Len(nn)) |-> CellStr(values, nn[i])]

IsPhoneColumn(col) ==
    \/ \E k \in 1..Len(phone_keywords) : Contains(StrLower(col.name), phone_keywords[k])
    \/ /\ IsObjectColumn(col.values)
       /\ Len(PhoneSample(col.values)) > 0
       /\ 10 * CountOf(PhoneSample(col.values), LooksLikePhone)
            > 6 * Len(PhoneSample(col.values))

\* the names of the detected columns
detect_phone_columns(table) ==
    {table[i].name : i \in {j \in 1..Len(table) : IsPhoneColumn(table[j])}}

----------------------------------------------------------------------------
(* Scores are kept in hundredths: 100.0 is 10000, 66.67 is 6667 *)

\* num / den rounded to the nearest integer, ties to even (Python's round)
RoundHalfEven(num, den) ==
    LET q == num \div den
        r == num % den
    IN IF 2 * r < den THEN q
       ELSE IF 2 * r > den THEN q + 1
       ELSE q + (q % 2)

\* round(part / whole * 100, 2)
Score2(part, whole) == RoundHalfEven(10000 * part, whole)

RuleResult(col, rule, friendly, dim, passed, failed, total, score, fscore, status) ==
    [column_name |-> col, rule_type |-> rule, friendly_rule_name |-> friendly,
     dimension |-> dim, number_of_rows_passed |-> passed,
     number_of_rows_failed |-> failed, total_rows_evaluated |-> total,
     passed_score |-> score, failed_score |-> fscore,
     rule_application_status |-> status]

----------------------------------------------------------------------------
(* simplified_validation, one column *)

\* the completeness result that scores a table without rows as complete
CompletenessFullWithoutRows(table, col) ==
    LET null_count == NullCount(col.values)
        total == NRows(table)
        valid_count == total - null_count
        score == IF total > 0 THEN Score2(valid_count, total) ELSE 10000
    IN RuleResult(col.name, "completeness_check", "No Missing Values",
                  "completeness", valid_count, null_count, total,
                  score, 10000 - score, "Rule Applied")

\* 1. completeness
CompletenessResult(table, col) ==
    LET null_count == NullCount(col.values)
        total == NRows(table)
        valid_count == total - null_count
        score == IF total > 0 THEN Score2(valid_count, total) ELSE 0
    IN RuleResult(col.name, "completeness_check", "No Missing Values",
                  "completeness", valid_count, null_count, total,
                  score, 10000 - score, "Rule Applied")

\* the uniqueness result with a failed score that is not the complement
UniquenessFailedScoreFull(col) ==
    RuleResult(col.name, "uniqueness_check", "Unique Values Check",
               "uniqueness", 0, 0, 0, 10000, 10000, "No Data to Evaluate")

\* 2. uniqueness
UniquenessResult(col) ==
    LET nn == DropNa(col.values)
        unique_count == Cardinality(SeqRange(nn))
        score == Score2(unique_count, Len(nn))
    IN IF Len(nn) > 0
       THEN RuleResult(col.name, "uniqueness_check", "Unique Values Check",
                       "uniqueness", unique_count, Len(nn) - unique_count,
                       Len(nn), score, 10000 - score, "Rule Applied")
       ELSE RuleResult(col.name, "uniqueness_check", "Unique Values Check",
                       "uniqueness", 0, 0, 0, 10000, 0, "No Data to Evaluate")

\* isinstance(value, (int, float)) or a text of digits once '.' and '-' are removed
IsNumericLike(v) ==
    \/ v.kind = "num"
    \/ v.kind = "str" /\ StrIsDigit(RemoveChar(RemoveChar(v.str, "."), "-"))

\* a text cell that is blank or longer than 1000 characters
IsBadText(v) ==
    v.kind = "str" /\ (Len(StrStrip(v.str)) = 0 \/ Len(v.str) > 1000)

\* 3. validity
ValidityResult(col, is_phone_column) ==
    LET nn == DropNa(col.values)
        numeric_count == CountOf(nn, IsNumericLike)
        string_count == Len(nn) - numeric_count
        bad_count == CountOf(nn, IsBadText)
        valid_count ==
            IF Len(nn) = 0 THEN 0
            ELSE IF is_phone_column THEN CountOf(nn, validate_phone_number)
            ELSE IF numeric_count > string_count THEN numeric_count
            ELSE Len(nn) - bad_count
        invalid_count ==
            IF Len(nn) = 0 THEN 0
            ELSE IF is_phone_column THEN Len(nn) - valid_count
            ELSE IF numeric_count > string_count THEN string_count
            ELSE bad_count
        score == IF Len(nn) = 0 THEN 10000 ELSE Score2(valid_count, Len(nn))
        rule_name ==
            IF Len(nn) = 0
            THEN (IF is_phone_column THEN "Phone Number Format" ELSE "Data Type Validity")
            ELSE (IF is_phone_column
                  THEN "Phone Number Format (^\\+1-\\d{3}-\\d{3}-\\d{4}$)"
                  ELSE "Data Type Validity")
    IN RuleResult(col.name, "validity_check", rule_name, "validity",
                  valid_count, invalid_count, Len(nn),
                  score, 10000 - score, "Rule Applied")

\* "A" for a letter, "9" for a digit, "X" for anything else
ShapeChar(c) == IF IsAlpha(c) THEN "A" ELSE IF IsDigit(c) THEN "9" ELSE "X"

\* the character classes of s with runs collapsed
RECURSIVE CollapsedShape(_, _)
CollapsedShape(s, prev_char) ==
    IF s = <<>> THEN <<>>
    ELSE IF ShapeChar(Head(s)) /= prev_char
    THEN <<ShapeChar(Head(s))>> \o CollapsedShape(Tail(s), ShapeChar(Head(s)))
    ELSE CollapsedShape(Tail(s), prev_char)

Shape(s) == CollapsedShape(s, "")

\* the largest member of a non-empty set of numbers
MaxOf(S) == CHOOSE m \in S : \A n \in S : n <= m

\* 4. consistency
ConsistencyResult(col) ==
    LET nn == DropNa(col.values)
        string_values == [i \in 1..Len(nn) |-> CellStr(col.values, nn[i])]
        shapes == [i \in 1..Len(nn) |-> Shape(string_values[i])]
        patterns(p) == Cardinality({i \in 1..Len(nn) : shapes[i] = p})
        consistent_count ==
            IF Len(nn) = 0 THEN 0
            ELSE MaxOf({patterns(p) : p \in SeqRange(shapes)})
        score == IF Len(nn) = 0 THEN 10000 ELSE Score2(consistent_count, Len(nn))
    IN RuleResult(col.name, "consistency_check", "Pattern Consistency",
                  "consistency", consistent_count,
                  (IF Len(nn) = 0 THEN 0 ELSE Len(nn) - consistent_count),
                  Len(nn), score, 10000 - score, "Rule Applied")

\* float(text) succeeds, for a text of digits, '.' and '-' only
IsFloatText(s) ==
    LET body == IF s /= <<>> /\ Head(s) = "-" THEN Tail(s) ELSE s
    IN /\ ~Contains(body, <<"-">>)
       /\ Len(body) - Len(RemoveChar(body, ".")) <= 1
       /\ \E i \in 1..Len(body) : IsDigit(body[i])

\* the natural number written by a sequence of digits
RECURSIVE DigitsValue(_)
DigitsValue(s) ==
    IF s = <<>> THEN 0
    ELSE 10 * DigitsValue(SubSeq(s, 1, Len(s) - 1))
         + (CHOOSE d \in 0..9 : DigitChars[d + 1] = s[Len(s)])

\* index of the first '.' of s, Len(s) + 1 when there is none
RECURSIVE DotIndex(_, _)
DotIndex(s, i) == IF i > Len(s) \/ s[i] = "." THEN i ELSE DotIndex(s, i + 1)

\* float(text) in tenths, for a text with at most one digit after the '.'
TextTenths(s) ==
    LET neg == s /= <<>> /\ Head(s) = "-"
        body == IF neg THEN Tail(s) ELSE s
        dot == DotIndex(body, 1)
        whole == DigitsValue(SubSeq(body, 1, dot - 1))
        frac == IF dot + 1 <= Len(body) THEN DigitsValue(<<body[dot + 1]>>) ELSE 0
        magnitude == 10 * whole + frac
    IN IF neg THEN 0 - magnitude ELSE magnitude

\* whether the accuracy check appends float(value) to numeric_values
IsAccuracyNumeric(v) ==
    \/ v.kind = "num"
    \/ v.kind = "str" /\ StrIsDigit(RemoveChar(RemoveChar(v.str, "."), "-"))
         /\ IsFloatText(v.str)

\* float(value), in tenths
Tenths(v) == IF v.kind = "num" THEN 10 * v.num ELSE TextTenths(v.str)

RECURSIVE SumSeq(_)
SumSeq(s) == IF s = <<>> THEN 0 ELSE Head(s) + SumSeq(Tail(s))

\* std_val == 0 or abs(value - mean_val) <= 3 * std_val, over the numbers xs:
\* with n = len(xs) and S = sum(xs), n (n x - S)^2 <= 9 sum((n x_i - S)^2)
WithinThreeSigma(xs, x) ==
    LET n == Len(xs)
        S == SumSeq(xs)
        dev(y) == (n * y - S) * (n * y - S)
    IN n * dev(x) <= 9 * SumSeq([i \in 1..n |-> dev(xs[i])])

RECURSIVE SelectAccuracyNumeric(_)
SelectAccuracyNumeric(values) ==
    IF values = <<>> THEN <<>>
    ELSE IF IsAccuracyNumeric(Head(values))
    THEN <<Tenths(Head(values))>> \o SelectAccuracyNumeric(Tail(values))
    ELSE SelectAccuracyNumeric(Tail(values))

\* 5. accuracy
AccuracyResult(col) ==
    LET nn == DropNa(col.values)
        numeric_values == SelectAccuracyNumeric(nn)
        within(x) == WithinThreeSigma(numeric_values, x)
        accurate_count ==
            IF Len(nn) = 0 THEN 0
            ELSE IF Len(numeric_values) > 1 THEN CountOf(numeric_values, within)
            ELSE IF Len(numeric_values) = 1 THEN 1
            ELSE Len(nn)
        inaccurate_count ==
            IF Len(nn) > 0 /\ Len(numeric_values) > 1
            THEN Len(numeric_values) - accurate_count
            ELSE 0
        score ==
            IF Len(nn) > 0 /\ Len(numeric_values) > 1
            THEN Score2(accurate_count, Len(numeric_values))
            ELSE 10000
    IN RuleResult(col.name, "accuracy_check", "Value Range Accuracy",
                  "accuracy", accurate_count, inaccurate_count, Len(nn),
                  score, 10000 - score, "Rule Applied")

\* the five results of one column, in the order they are appended
\* the results of one column without the uniqueness result
SimplifiedColumnWithoutUniqueness(table, col) ==
    << CompletenessResult(table, col),
       ValidityResult(col, col.name \in detect_phone_columns(table)),
       ConsistencyResult(col),
       AccuracyResult(col) >>

SimplifiedColumn(table, col) ==
    << CompletenessResult(table, col),
       UniquenessResult(col),
       ValidityResult(col, col.name \in detect_phone_columns(table)),
       ConsistencyResult(col),
       AccuracyResult(col) >>

RECURSIVE SimplifiedFrom(_, _)
SimplifiedFrom(table, i) ==
    IF i > Len(table) THEN <<>>
    ELSE SimplifiedColumn(table, table[i]) \o SimplifiedFrom(table, i + 1)

simplified_validation(table) == SimplifiedFrom(table, 1)

----------------------------------------------------------------------------
(* validate_dataset, full mode *)

DIMENSIONS == <<"completeness", "uniqueness", "validity", "consistency", "accuracy">>

Rule(rule_type, kwargs) == [rule_type |-> rule_type, kwargs |-> kwargs]

\* the rule bank: five rules for each dimension, in the order of the dict
RULES_BY_DIMENSION ==
    [completeness |->
        << Rule("expect_column_values_to_not_be_null", "{}"),
           Rule("expect_column_values_to_not_match_regex", "regex=^\\s*$"),
           Rule("expect_column_values_to_be_in_type_list", "type_list=int,float,str"),
           Rule("expect_column_value_lengths_to_be_between", "min_value=1,max_value=255"),
           Rule("expect_column_values_to_be_of_type", "type_=str") >>,
     uniqueness |->
        << Rule("expect_column_values_to_be_unique", "{}"),
           Rule("expect_column_most_common_value_to_be_in_set", "value_set=None"),
           Rule("expect_column_values_to_be_in_type_list", "type_list=int,float,str"),
           Rule("expect_column_values_to_be_of_type", "type_=str"),
           Rule("expect_column_values_to_match_regex", "regex=^[^\\s].*[^\\s]$") >>,
     validity |->
        << Rule("expect_column_values_to_match_regex", "regex=^[a-zA-Z0-9@.\\s-]*$"),
           Rule("expect_column_values_to_not_match_regex", "regex=.*[!#$%^&*()].*"),
           Rule("expect_column_value_lengths_to_be_between", "min_value=1,max_value=255"),
           Rule("expect_column_values_to_be_in_type_list", "type_list=int,float,str"),
           Rule("expect_column_values_to_be_of_type", "type_=str") >>,
     consistency |->
        << Rule("expect_column_values_to_match_strftime_format", "strftime_format=%Y-%m-%d"),
           Rule("expect_column_values_to_be_in_type_list", "type_list=int,float,str"),
           Rule("expect_column_values_to_match_regex", "regex=^[^\\s].*[^\\s]$"),
           Rule("expect_column_values_to_be_of_type", "type_=str"),
           Rule("expect_column_most_common_value_to_be_in_set", "value_set=None") >>,
     accuracy |->
        << Rule("expect_column_values_to_be_between", "min_value=0,max_value=100"),
           Rule("expect_column_values_to_be_in_set", "value_set=A,B,C,D"),
           Rule("expect_column_values_to_be_of_type", "type_=int"),
           Rule("expect_column_mean_to_be_between", "min_value=10,max_value=90"),
           Rule("expect_column_median_to_be_between", "min_value=10,max_value=90") >>]

\* RULE_NAME_MAPPING.get(rule_type, rule_type); of two entries for one key
\* the dict keeps the later one
RULE_NAME_MAPPING(rule_type) ==
    CASE rule_type = "expect_column_values_to_not_be_null" -> "No Missing Values"
      [] rule_type = "expect_column_values_to_not_match_regex" -> "No Disallowed Special Characters"
      [] rule_type = "expect_column_values_to_be_in_type_list" -> "Allowed Data Types"
      [] rule_type = "expect_column_value_lengths_to_be_between" -> "Field Length Within Limits"
      [] rule_type = "expect_column_values_to_be_of_type" -> "Expected Data Type"
      [] rule_type = "expect_column_values_to_be_unique" -> "Unique Values"
      [] rule_type = "expect_column_most_common_value_to_be_in_set" -> "Most Frequent Value Check"
      [] rule_type = "expect_column_values_to_match_regex" -> "Valid Character Pattern"
      [] rule_type = "expect_column_values_to_match_strftime_format" -> "Date Format Consistency"
      [] rule_type = "expect_column_values_to_be_between" -> "Values Within Expected Range"
      [] rule_type = "expect_column_values_to_be_in_set" -> "Expected Category Match"
      [] rule_type = "expect_column_mean_to_be_between" -> "Mean Value Within Range"
      [] rule_type = "expect_column_median_to_be_between" -> "Median Value Within Range"
      [] OTHER -> rule_type

\* the (dimension, rule) pairs of one column in loop order
RulesPerColumn == Len(DIMENSIONS) * Len(RULES_BY_DIMENSION.completeness)

NthDimension(k) == DIMENSIONS[(k \div Len(RULES_BY_DIMENSION.completeness)) + 1]

NthRule(k) ==
    RULES_BY_DIMENSION[NthDimension(k)][(k % Len(RULES_BY_DIMENSION.completeness)) + 1]

\* rules whose result carries an observed value and no unexpected_percent
AggregateRules ==
    { "expect_column_most_common_value_to_be_in_set",
      "expect_column_mean_to_be_between", "expect_column_median_to_be_between" }

\* What getattr(df_ge, rule_type)(col, **kwargs) and df_ge.validate() hand
\* back for one rule on one column under backend g:
\*   raises      the call raises
\*   no_percent  a result without "unexpected_percent" (the .get default 0)
\*   none        "unexpected_percent" is None (no non-missing value)
\*   percent     unexpected_percent = 100 * unexpected / of
GeResult(g, table, col, rule) ==
    LET of == IF rule.rule_type = "expect_column_values_to_not_be_null"
              THEN NRows(table)
              ELSE Len(DropNa(col.values))
    IN IF rule.rule_type = g.throwing THEN [kind |-> "raises"]
       ELSE IF rule.rule_type \in AggregateRules
       THEN [kind |-> "no_percent", element_count |-> NRows(table)]
       ELSE IF of = 0 THEN [kind |-> "none", element_count |-> NRows(table)]
       ELSE [kind |-> "percent", unexpected |-> Min(g.unexpected, of), of |-> of,
             element_count |-> NRows(table)]

\* an except branch that counts no row as failed
RuleNotAppliedNoRowFailed(table, col, dimension, rule) ==
    RuleResult(col.name, rule.rule_type, RULE_NAME_MAPPING(rule.rule_type),
               dimension, 0, 0, NRows(table), 0, 10000, "Rule Not Applied")

\* the except branch of the loop body
RuleNotApplied(table, col, dimension, rule) ==
    RuleResult(col.name, rule.rule_type, RULE_NAME_MAPPING(rule.rule_type),
               dimension, 0, NRows(table), NRows(table), 0, 10000,
               "Rule Not Applied")

\* the try branch of the loop body, for unexpected_percent = 100 * u / of
\*   valid_count = int((100 - unexpected_percent) * total / 100)
\*   invalid_count = int(unexpected_percent * total / 100)
\*   score = round(100 - unexpected_percent, 2)
RuleApplied(col, dimension, rule, u, of, total) ==
    LET valid_count == ((of - u) * total) \div of
        invalid_count == (u * total) \div of
        score == RoundHalfEven(10000 * (of - u), of)
    IN RuleResult(col.name, rule.rule_type, RULE_NAME_MAPPING(rule.rule_type),
                  dimension, valid_count, invalid_count, total,
                  score, 10000 - score, "Rule Applied")

\* whether the try branch runs to its end
RuleRaises(r) == r.kind \in {"raises", "none"}

\* the RuleResult the loop body appends
LoopResult(g, table, col, dimension, rule) ==
    LET r == GeResult(g, table, col, rule)
    IN IF RuleRaises(r) THEN RuleNotApplied(table, col, dimension, rule)
       ELSE IF r.kind = "no_percent"
       THEN RuleApplied(col, dimension, rule, 0, 1, r.element_count)
       ELSE RuleApplied(col, dimension, rule, r.unexpected, r.of, r.element_count)

----------------------------------------------------------------------------
(* The validation_rules table of core/db.py *)

SameKey(row, column_name, rule_type, dimension, pid) ==
    /\ row.column_name = column_name /\ row.rule_type = rule_type
    /\ row.dimension = dimension /\ row.project_id = pid

\* the lookup that finds no record
RuleNeverExists(rows, column_name, rule_type, dimension, pid) == FALSE

\* SELECT COUNT(*) ... > 0
rule_exists(rows, column_name, rule_type, dimension, pid) ==
    \E i \in 1..Len(rows) : SameKey(rows[i], column_name, rule_type, dimension, pid)

\* INSERT INTO validation_rules ... 0, 0, 0, 0, 0, 'Pending'
insert_validation_rule(rows, pid, column_name, rule_type, friendly, dimension) ==
    Append(rows,
           [project_id |-> pid, column_name |-> column_name, rule_type |-> rule_type,
            friendly_rule_name |-> friendly, dimension |-> dimension,
            number_of_rows_passed |-> 0, number_of_rows_failed |-> 0,
            total_rows_evaluated |-> 0, passed_score |-> 0, failed_score |-> 0,
            rule_application_status |-> "Pending"])

\* UPDATE validation_rules SET ... WHERE the key matches
update_validation_metrics(rows, column_name, rule_type, dimension, valid_count, invalid_count, total, score, pid) ==
    [i \in 1..Len(rows) |->
        IF SameKey(rows[i], column_name, rule_type, dimension, pid)
        THEN [rows[i] EXCEPT !.number_of_rows_passed = valid_count,
                             !.number_of_rows_failed = invalid_count,
                             !.total_rows_evaluated = total,
                             !.passed_score = score,
                             !.failed_score = 10000 - score,
                             !.rule_application_status = "Rule Applied"]
        ELSE rows[i]]

\* the store after the loop body recorded result res (try branch only)
StoreAfter(rows, res, pid) ==
    LET ensured ==
            IF rule_exists(rows, res.column_name, res.rule_type, res.dimension, pid)
            THEN rows
            ELSE insert_validation_rule(rows, pid, res.column_name, res.rule_type,
                                        res.friendly_rule_name, res.dimension)
    IN update_validation_metrics(ensured, res.column_name, res.rule_type,
                                 res.dimension, res.number_of_rows_passed,
                                 res.number_of_rows_failed, res.total_rows_evaluated,
                                 res.passed_score, pid)

\* a loop body that records its result in the store in the except branch too
StoreAfterRuleAlways(rows, raised, res, pid) == StoreAfter(rows, res, pid)

\* the store after one pass of the loop body: the except branch calls no
\* store function
StoreAfterRule(rows, raised, res, pid) ==
    IF raised THEN rows ELSE StoreAfter(rows, res, pid)

----------------------------------------------------------------------------
(* detect_column_mappings_exact: the ordered pattern lists of each role, and *)
(* the synonym lists of fuzzy_match_columns *)

\* detect_column_mappings_exact, line 23
source_patterns ==
    << <<"s", "o", "u", "r", "c", "e">>,
       <<"s", "o", "u", "r", "c", "e", "f", "i", "e", "l", "d">>,
       <<"s", "o", "u", "r", "c", "e", "_", "f", "i", "e", "l", "d">>,
       <<"s", "r", "c">>, <<"f", "r", "o", "m">>, <<"i", "n", "p", "u", "t">>,
       <<"o", "r", "i", "g", "i", "n", "a", "l">>,
       <<"b", "e", "g", "i", "n", "n", "i", "n", "g">>,
       <<"s", "t", "a", "r", "t">>, <<"i", "n", "i", "t", "i", "a", "l">>,
       <<"b", "a", "s", "e", "l", "i", "n", "e">>,
       <<"r", "a", "w", "_", "m", "a", "t", "e", "r", "i", "a", "l">>,
       <<"i", "n", "i", "t", "i", "a", "l", "_", "v", "a", "l", "u", "e">> >>

\* detect_column_mappings_exact, line 35
target_patterns ==
    << <<"t", "a", "r", "g", "e", "t">>,
       <<"t", "a", "r", "g", "e", "t", "f", "i", "e", "l", "d">>,
       <<"t", "a", "r", "g", "e", "t", "_", "f", "i", "e", "l", "d">>,
       <<"t", "g", "t">>, <<"t", "o">>, <<"o", "u", "t", "p", "u", "t">>,
       <<"d", "e", "s", "t", "i", "n", "a", "t", "i", "o", "n">>,
       <<"d", "e", "s", "t">>, <<"e", "n", "d", "p", "o", "i", "n", "t">>,
       <<"e", "n", "d">>, <<"f", "i", "n", "a", "l">>,
       <<"o", "u", "t", "c", "o", "m", "e">>,
       <<"f", "i", "n", "i", "s", "h", "e", "d", "_", "p", "r", "o", "d", "u", "c", "t">>,
       <<"f", "i", "n", "a", "l", "_", "v", "a", "l", "u", "e">> >>

\* detect_column_mappings_exact, line 46
transform_patterns ==
    << <<"t", "r", "a", "n", "s", "f", "o", "r", "m", "a", "t", "i", "o", "n">>,
       <<"t", "r", "a", "n", "s", "f", "o", "r", "m">>,
       <<"t", "r", "a", "n", "s", "f", "o", "r", "m", "a", "t", "i", "o", "n", "_", "c", "o", "d", "e">>,
       <<"t", "r", "a", "n", "s", "f", "o", "r", "m", "_", "c", "o", "d", "e">>,
       <<"c", "o", "d", "e">>, <<"l", "o", "g", "i", "c">>,
       <<"r", "u", "l", "e">>, <<"f", "o", "r", "m", "u", "l", "a">>,
       <<"e", "x", "p", "r", "e", "s", "s", "i", "o", "n">>,
       <<"m", "e", "t", "h", "o", "d">>,
       <<"p", "r", "o", "c", "e", "d", "u", "r", "e">>,
       <<"p", "r", "o", "c", "e", "s", "s">>,
       <<"a", "l", "g", "o", "r", "i", "t", "h", "m">> >>

\* detect_column_mappings_exact, line 58
required_patterns ==
    << <<"r", "e", "q", "u", "i", "r", "e", "d">>,
       <<"m", "a", "n", "d", "a", "t", "o", "r", "y">>, <<"r", "e", "q">>,
       <<"m", "u", "s", "t">>, <<"e", "s", "s", "e", "n", "t", "i", "a", "l">>,
       <<"n", "e", "c", "e", "s", "s", "a", "r", "y">>,
       <<"n", "e", "e", "d", "e", "d">>,
       <<"c", "r", "i", "t", "i", "c", "a", "l">>, <<"v", "i", "t", "a", "l">> >>

\* detect_column_mappings_exact, line 69
direct_patterns ==
    << <<"d", "i", "r", "e", "c", "t">>,
       <<"d", "i", "r", "e", "c", "t", "_", "m", "a", "p">>,
       <<"d", "i", "r", "e", "c", "t", "m", "a", "p">>, <<"c", "o", "p", "y">>,
       <<"d", "i", "r", "e", "c", "t", "_", "c", "o", "p", "y">>,
       <<"s", "i", "m", "p", "l", "e">>, <<"p", "l", "a", "i", "n">>,
       <<"u", "n", "c", "h", "a", "n", "g", "e", "d">>,
       <<"i", "d", "e", "n", "t", "i", "c", "a", "l">> >>

\* detect_column_mappings_exact, line 80
default_patterns ==
    << <<"d", "e", "f", "a", "u", "l", "t">>,
       <<"d", "e", "f", "a", "u", "l", "t", "_", "v", "a", "l", "u", "e">>,
       <<"d", "e", "f", "a", "u", "l", "t", "v", "a", "l", "u", "e">>,
       <<"f", "a", "l", "l", "b", "a", "c", "k">>,
       <<"b", "a", "c", "k", "u", "p">>, <<"p", "r", "e", "s", "e", "t">>,
       <<"s", "t", "a", "n", "d", "a", "r", "d">>,
       <<"p", "l", "a", "c", "e", "h", "o", "l", "d", "e", "r">>,
       <<"s", "u", "b", "s", "t", "i", "t", "u", "t", "e">> >>

\* detect_column_mappings_exact, line 91
conditional_patterns ==
    << <<"c", "o", "n", "d", "i", "t", "i", "o", "n", "a", "l">>,
       <<"c", "o", "n", "d", "i", "t", "i", "o", "n", "a", "l", "m", "a", "p", "p", "i", "n", "g">>,
       <<"c", "o", "n", "d", "i", "t", "i", "o", "n", "a", "l", "_", "m", "a", "p", "p", "i", "n", "g">>,
       <<"c", "o", "n", "d", "i", "t", "i", "o", "n">>,
       <<"c", "o", "n", "d", "i", "t", "i", "o", "n", "s">>,
       <<"c", "o", "n", "d", "i", "t", "i", "o", "n", "a", "l", "_", "l", "o", "g", "i", "c">>,
       <<"i", "f", "_", "t", "h", "e", "n">>,
       <<"b", "u", "s", "i", "n", "e", "s", "s", "_", "r", "u", "l", "e">>,
       <<"m", "a", "p", "p", "i", "n", "g", "_", "r", "u", "l", "e">>,
       <<"c", "o", "n", "d", "i", "t", "i", "o", "n", "a", "l", "_", "r", "u", "l", "e">>,
       <<"c", "r", "i", "t", "e", "r", "i", "a">>,
       <<"c", "r", "i", "t", "e", "r", "i", "o", "n">>,
       <<"c", "o", "n", "s", "t", "r", "a", "i", "n", "t", "s">>,
       <<"r", "e", "q", "u", "i", "r", "e", "m", "e", "n", "t", "s">>,
       <<"s", "p", "e", "c", "i", "f", "i", "c", "a", "t", "i", "o", "n", "s">> >>

\* categories['source'] of fuzzy_match_columns, line 116
category_source ==
    << <<"s", "o", "u", "r", "c", "e">>,
       <<"s", "o", "u", "r", "c", "e", "f", "i", "e", "l", "d">>,
       <<"s", "o", "u", "r", "c", "e", "_", "f", "i", "e", "l", "d">>,
       <<"s", "o", "u", "r", "c", "e", "_", "c", "o", "l", "u", "m", "n">>,
       <<"s", "r", "c">>, <<"f", "r", "o", "m">>, <<"i", "n", "p", "u", "t">>,
       <<"o", "r", "i", "g", "i", "n", "a", "l">>, <<"o", "r", "i", "g">>,
       <<"s", "o", "u", "r", "c", "e", "_", "n", "a", "m", "e">>,
       <<"i", "n", "p", "u", "t", "_", "f", "i", "e", "l", "d">>,
       <<"i", "n", "p", "u", "t", "_", "c", "o", "l", "u", "m", "n">>,
       <<"o", "r", "i", "g", "i", "n">>,
       <<"b", "e", "g", "i", "n", "n", "i", "n", "g">>,
       <<"s", "t", "a", "r", "t">>, <<"i", "n", "i", "t", "i", "a", "l">>,
       <<"b", "a", "s", "e", "l", "i", "n", "e">>, <<"r", "a", "w">>,
       <<"i", "n", "c", "o", "m", "i", "n", "g">>,
       <<"i", "n", "b", "o", "u", "n", "d">>,
       <<"p", "r", "i", "m", "a", "r", "y">>, <<"b", "a", "s", "e">>,
       <<"f", "o", "u", "n", "d", "a", "t", "i", "o", "n">>,
       <<"r", "a", "w", "_", "m", "a", "t", "e", "r", "i", "a", "l">>,
       <<"i", "n", "i", "t", "i", "a", "l", "_", "v", "a", "l", "u", "e">>,
       <<"s", "t", "a", "r", "t", "i", "n", "g", "_", "p", "o", "i", "n", "t">>,
       <<"o", "l", "d">>, <<"e", "x", "i", "s", "t", "i", "n", "g">>,
       <<"c", "u", "r", "r", "e", "n", "t">>, <<"b", "e", "f", "o", "r", "e">>,
       <<"l", "e", "g", "a", "c", "y">>,
       <<"p", "r", "e", "v", "i", "o", "u", "s">>,
       <<"o", "l", "d", "_", "v", "a", "l", "u", "e">>,
       <<"p", "r", "e", "d", "e", "c", "e", "s", "s", "o", "r">>,
       <<"a", "n", "t", "e", "c", "e", "d", "e", "n", "t">>,
       <<"o", "r", "i", "g", "i", "n", "a", "t", "o", "r">>,
       <<"p", "a", "r", "e", "n", "t">>, <<"r", "o", "o", "t">> >>

\* categories['target'] of fuzzy_match_columns, line 127
category_target ==
    << <<"t", "a", "r", "g", "e", "t">>,
       <<"t", "a", "r", "g", "e", "t", "f", "i", "e", "l", "d">>,
       <<"t", "a", "r", "g", "e", "t", "_", "f", "i", "e", "l", "d">>,
       <<"t", "a", "r", "g", "e", "t", "_", "c", "o", "l", "u", "m", "n">>,
       <<"t", "g", "t">>, <<"t", "o">>, <<"o", "u", "t", "p", "u", "t">>,
       <<"d", "e", "s", "t", "i", "n", "a", "t", "i", "o", "n">>,
       <<"d", "e", "s", "t">>,
       <<"t", "a", "r", "g", "e", "t", "_", "n", "a", "m", "e">>,
       <<"o", "u", "t", "p", "u", "t", "_", "f", "i", "e", "l", "d">>,
       <<"o", "u", "t", "p", "u", "t", "_", "c", "o", "l", "u", "m", "n">>,
       <<"r", "e", "s", "u", "l", "t">>,
       <<"e", "n", "d", "p", "o", "i", "n", "t">>, <<"e", "n", "d">>,
       <<"f", "i", "n", "a", "l">>, <<"o", "u", "t", "c", "o", "m", "e">>,
       <<"f", "i", "n", "i", "s", "h", "e", "d">>,
       <<"o", "u", "t", "g", "o", "i", "n", "g">>,
       <<"o", "u", "t", "b", "o", "u", "n", "d">>,
       <<"s", "e", "c", "o", "n", "d", "a", "r", "y">>,
       <<"d", "e", "r", "i", "v", "e", "d">>,
       <<"c", "o", "n", "c", "l", "u", "s", "i", "o", "n">>,
       <<"f", "i", "n", "i", "s", "h", "e", "d", "_", "p", "r", "o", "d", "u", "c", "t">>,
       <<"f", "i", "n", "a", "l", "_", "v", "a", "l", "u", "e">>,
       <<"e", "n", "d", "i", "n", "g", "_", "p", "o", "i", "n", "t">>,
       <<"n", "e", "w">>, <<"u", "p", "d", "a", "t", "e", "d">>,
       <<"m", "o", "d", "i", "f", "i", "e", "d">>, <<"a", "f", "t", "e", "r">>,
       <<"r", "e", "v", "i", "s", "e", "d">>,
       <<"c", "h", "a", "n", "g", "e", "d">>,
       <<"n", "e", "w", "_", "v", "a", "l", "u", "e">>,
       <<"s", "u", "c", "c", "e", "s", "s", "o", "r">>,
       <<"c", "o", "n", "s", "e", "q", "u", "e", "n", "t">>,
       <<"c", "h", "i", "l", "d">>,
       <<"o", "f", "f", "s", "p", "r", "i", "n", "g">>,
       <<"b", "r", "a", "n", "c", "h">> >>

\* categories['transformation_code'] of fuzzy_match_columns, line 138
category_transformation_code ==
    << <<"t", "r", "a", "n", "s", "f", "o", "r", "m", "a", "t", "i", "o", "n">>,
       <<"t", "r", "a", "n", "s", "f", "o", "r", "m">>,
       <<"t", "r", "a", "n", "s", "f", "o", "r", "m", "a", "t", "i", "o", "n", "_", "c", "o", "d", "e">>,
       <<"t", "r", "a", "n", "s", "f", "o", "r", "m", "_", "c", "o", "d", "e">>,
       <<"c", "o", "d", "e">>, <<"l", "o", "g", "i", "c">>,
       <<"r", "u", "l", "e">>, <<"f", "o", "r", "m", "u", "l", "a">>,
       <<"e", "x", "p", "r", "e", "s", "s", "i", "o", "n">>,
       <<"t", "r", "a", "n", "s", "f", "o", "r", "m", "_", "l", "o", "g", "i", "c">>,
       <<"m", "a", "p", "p", "i", "n", "g", "_", "l", "o", "g", "i", "c">>,
       <<"c", "a", "l", "c", "u", "l", "a", "t", "i", "o", "n">>,
       <<"f", "u", "n", "c", "t", "i", "o", "n">>,
       <<"t", "r", "a", "n", "s", "f", "o", "r", "m", "_", "r", "u", "l", "e">>,
       <<"t", "r", "a", "n", "s", "f", "o", "r", "m", "a", "t", "i", "o", "n", "_", "r", "u", "l", "e">>,
       <<"m", "e", "t", "h", "o", "d">>,
       <<"p", "r", "o", "c", "e", "d", "u", "r", "e">>,
       <<"p", "r", "o", "c", "e", "s", "s">>,
       <<"a", "l", "g", "o", "r", "i", "t", "h", "m">>,
       <<"t", "e", "c", "h", "n", "i", "q", "u", "e">>,
       <<"a", "p", "p", "r", "o", "a", "c", "h">>,
       <<"m", "e", "t", "h", "o", "d", "o", "l", "o", "g", "y">>,
       <<"o", "p", "e", "r", "a", "t", "i", "o", "n">>,
       <<"c", "o", "n", "v", "e", "r", "s", "i", "o", "n">>,
       <<"m", "a", "n", "i", "p", "u", "l", "a", "t", "i", "o", "n">>,
       <<"p", "r", "o", "c", "e", "s", "s", "i", "n", "g">>,
       <<"c", "o", "m", "p", "u", "t", "a", "t", "i", "o", "n">>,
       <<"e", "v", "a", "l", "u", "a", "t", "i", "o", "n">>,
       <<"e", "x", "e", "c", "u", "t", "i", "o", "n">>,
       <<"i", "m", "p", "l", "e", "m", "e", "n", "t", "a", "t", "i", "o", "n">>,
       <<"d", "e", "r", "i", "v", "a", "t", "i", "o", "n">> >>

\* categories['conditional_mapping'] of fuzzy_match_columns, line 149
category_conditional_mapping ==
    << <<"c", "o", "n", "d", "i", "t", "i", "o", "n", "a", "l">>,
       <<"c", "o", "n", "d", "i", "t", "i", "o", "n", "a", "l", "m", "a", "p", "p", "i", "n", "g">>,
       <<"c", "o", "n", "d", "i", "t", "i", "o", "n", "a", "l", "_", "m", "a", "p", "p", "i", "n", "g">>,
       <<"c", "o", "n", "d", "i", "t", "i", "o", "n">>,
       <<"c", "o", "n", "d", "i", "t", "i", "o", "n", "s">>,
       <<"c", "o", "n", "d", "i", "t", "i", "o", "n", "a", "l", "_", "l", "o", "g", "i", "c">>,
       <<"i", "f", "_", "t", "h", "e", "n">>,
       <<"b", "u", "s", "i", "n", "e", "s", "s", "_", "r", "u", "l", "e">>,
       <<"m", "a", "p", "p", "i", "n", "g", "_", "r", "u", "l", "e">>,
       <<"c", "o", "n", "d", "i", "t", "i", "o", "n", "a", "l", "_", "r", "u", "l", "e">>,
       <<"c", "r", "i", "t", "e", "r", "i", "a">>,
       <<"c", "r", "i", "t", "e", "r", "i", "o", "n">>,
       <<"c", "o", "n", "s", "t", "r", "a", "i", "n", "t", "s">>,
       <<"r", "e", "q", "u", "i", "r", "e", "m", "e", "n", "t", "s">>,
       <<"s", "p", "e", "c", "i", "f", "i", "c", "a", "t", "i", "o", "n", "s">>,
       <<"g", "u", "i", "d", "e", "l", "i", "n", "e", "s">>,
       <<"p", "o", "l", "i", "c", "i", "e", "s">>, <<"r", "u", "l", "e", "s">>,
       <<"p", "r", "o", "v", "i", "s", "i", "o", "n", "s">>,
       <<"s", "t", "i", "p", "u", "l", "a", "t", "i", "o", "n", "s">>,
       <<"p", "a", "r", "a", "m", "e", "t", "e", "r", "s">>,
       <<"l", "i", "m", "i", "t", "a", "t", "i", "o", "n", "s">>,
       <<"r", "e", "s", "t", "r", "i", "c", "t", "i", "o", "n", "s">>,
       <<"f", "i", "l", "t", "e", "r", "s">>,
       <<"v", "a", "l", "i", "d", "a", "t", "o", "r", "s">> >>

\* categories['required'] of fuzzy_match_columns, line 159
category_required ==
    << <<"r", "e", "q", "u", "i", "r", "e", "d">>,
       <<"m", "a", "n", "d", "a", "t", "o", "r", "y">>, <<"r", "e", "q">>,
       <<"m", "u", "s", "t">>, <<"e", "s", "s", "e", "n", "t", "i", "a", "l">>,
       <<"i", "s", "_", "r", "e", "q", "u", "i", "r", "e", "d">>,
       <<"i", "s", "_", "m", "a", "n", "d", "a", "t", "o", "r", "y">>,
       <<"m", "a", "n", "d", "a", "t", "o", "r", "y", "_", "f", "l", "a", "g">>,
       <<"r", "e", "q", "u", "i", "r", "e", "d", "_", "f", "l", "a", "g">>,
       <<"n", "e", "c", "e", "s", "s", "i", "t", "y">>,
       <<"c", "o", "m", "p", "u", "l", "s", "o", "r", "y">>,
       <<"o", "b", "l", "i", "g", "a", "t", "o", "r", "y">>,
       <<"n", "e", "c", "e", "s", "s", "a", "r", "y">>,
       <<"n", "e", "e", "d", "e", "d">>,
       <<"d", "e", "m", "a", "n", "d", "e", "d">>,
       <<"c", "r", "i", "t", "i", "c", "a", "l">>, <<"v", "i", "t", "a", "l">>,
       <<"i", "m", "p", "o", "r", "t", "a", "n", "t">>, <<"k", "e", "y">>,
       <<"f", "u", "n", "d", "a", "m", "e", "n", "t", "a", "l">>,
       <<"i", "n", "d", "i", "s", "p", "e", "n", "s", "a", "b", "l", "e">>,
       <<"p", "r", "e", "r", "e", "q", "u", "i", "s", "i", "t", "e">> >>

\* categories['direct_map'] of fuzzy_match_columns, line 168
category_direct_map ==
    << <<"d", "i", "r", "e", "c", "t">>,
       <<"d", "i", "r", "e", "c", "t", "_", "m", "a", "p">>,
       <<"d", "i", "r", "e", "c", "t", "m", "a", "p">>, <<"c", "o", "p", "y">>,
       <<"d", "i", "r", "e", "c", "t", "_", "c", "o", "p", "y">>,
       <<"i", "s", "_", "d", "i", "r", "e", "c", "t">>,
       <<"d", "i", "r", "e", "c", "t", "_", "m", "a", "p", "p", "i", "n", "g">>,
       <<"p", "a", "s", "s", "t", "h", "r", "o", "u", "g", "h">>,
       <<"d", "i", "r", "e", "c", "t", "_", "t", "r", "a", "n", "s", "f", "e", "r">>,
       <<"s", "t", "r", "a", "i", "g", "h", "t">>,
       <<"s", "i", "m", "p", "l", "e">>, <<"p", "l", "a", "i", "n">>,
       <<"b", "a", "s", "i", "c">>,
       <<"u", "n", "c", "h", "a", "n", "g", "e", "d">>,
       <<"i", "d", "e", "n", "t", "i", "c", "a", "l">>,
       <<"m", "i", "r", "r", "o", "r">>,
       <<"d", "u", "p", "l", "i", "c", "a", "t", "e">>,
       <<"r", "e", "p", "l", "i", "c", "a", "t", "e">>,
       <<"c", "l", "o", "n", "e">>,
       <<"r", "e", "p", "r", "o", "d", "u", "c", "e">> >>

\* categories['default_value'] of fuzzy_match_columns, line 177
category_default_value ==
    << <<"d", "e", "f", "a", "u", "l", "t">>,
       <<"d", "e", "f", "a", "u", "l", "t", "_", "v", "a", "l", "u", "e">>,
       <<"d", "e", "f", "a", "u", "l", "t", "v", "a", "l", "u", "e">>,
       <<"f", "a", "l", "l", "b", "a", "c", "k">>,
       <<"b", "a", "c", "k", "u", "p">>,
       <<"d", "e", "f", "a", "u", "l", "t", "_", "v", "a", "l">>,
       <<"f", "a", "l", "l", "b", "a", "c", "k", "_", "v", "a", "l", "u", "e">>,
       <<"b", "a", "c", "k", "u", "p", "_", "v", "a", "l", "u", "e">>,
       <<"n", "u", "l", "l", "_", "r", "e", "p", "l", "a", "c", "e", "m", "e", "n", "t">>,
       <<"p", "r", "e", "s", "e", "t">>,
       <<"s", "t", "a", "n", "d", "a", "r", "d">>,
       <<"i", "n", "i", "t", "i", "a", "l">>,
       <<"b", "a", "s", "e", "l", "i", "n", "e">>,
       <<"p", "l", "a", "c", "e", "h", "o", "l", "d", "e", "r">>,
       <<"s", "u", "b", "s", "t", "i", "t", "u", "t", "e">>,
       <<"a", "l", "t", "e", "r", "n", "a", "t", "i", "v", "e">>,
       <<"r", "e", "p", "l", "a", "c", "e", "m", "e", "n", "t">>,
       <<"s", "t", "a", "n", "d", "b", "y">>,
       <<"r", "e", "s", "e", "r", "v", "e">>,
       <<"c", "o", "n", "t", "i", "n", "g", "e", "n", "c", "y">> >>

\* the roles of a column_map
Roles ==
    {"source", "target", "transformation_code", "conditional_mapping",
     "required", "direct_map", "default_value"}

\* the pattern lists with 'end' missing from the target patterns
ExactPatternsWithoutEnd(role) ==
    CASE role = "source" -> source_patterns
      [] role = "target" ->
            SelectSeq(target_patterns, LAMBDA p : p /= <<"e", "n", "d">>)
      [] role = "transformation_code" -> transform_patterns
      [] role = "required" -> required_patterns
      [] role = "direct_map" -> direct_patterns
      [] role = "default_value" -> default_patterns
      [] role = "conditional_mapping" -> conditional_patterns

\* the pattern list detect_column_mappings_exact walks for a role
ExactPatterns(role) ==
    CASE role = "source" -> source_patterns
      [] role = "target" -> target_patterns
      [] role = "transformation_code" -> transform_patterns
      [] role = "required" -> required_patterns
      [] role = "direct_map" -> direct_patterns
      [] role = "default_value" -> default_patterns
      [] role = "conditional_mapping" -> conditional_patterns

\* columns = [col.lower().strip() for col in mapping_df.columns]
NormalisedHeader(h) == StrStrip(StrLower(h))

\* index of the first element of a sequence that satisfies a test, 0 if none
FirstIndex(s, Test(_)) ==
    IF \E i \in 1..Len(s) : Test(s[i])
    THEN CHOOSE i \in 1..Len(s) : Test(s[i]) /\ \A j \in 1..(i - 1) : ~Test(s[j])
    ELSE 0

\* header by header: the first header that contains any pattern of the list
ExactIndexHeaderFirst(columns, patterns) ==
    LET any(h) == \E k \in 1..Len(patterns) : Contains(NormalisedHeader(h), patterns[k])
    IN FirstIndex(columns, any)

\* one "for pattern in ..._patterns" loop: the index of the header that gets
\* the role, 0 when no pattern is contained in any header
ExactIndex(columns, patterns) ==
    LET hit(p) == \E i \in 1..Len(columns) : Contains(NormalisedHeader(columns[i]), p)
        k == FirstIndex(patterns, hit)
    IN IF k = 0 THEN 0
       ELSE LET inHeader(h) == Contains(NormalisedHeader(h), patterns[k])
                first == columns[FirstIndex(columns, inHeader)]
                same(h) == NormalisedHeader(h) = NormalisedHeader(first)
            IN FirstIndex(columns, same)

\* Tier 1
detect_column_mappings_exact(columns) ==
    LET found == {r \in Roles : ExactIndex(columns, ExactPatterns(r)) > 0}
    IN [r \in found |-> columns[ExactIndex(columns, ExactPatterns(r))]]

----------------------------------------------------------------------------
(* fuzzy_match_columns: similarity of a header to the synonyms of a role *)

\* dict order of categories
CategoryOrder ==
    <<"source", "target", "transformation_code", "conditional_mapping",
      "required", "direct_map", "default_value">>

categories(role) ==
    CASE role = "source" -> category_source
      [] role = "target" -> category_target
      [] role = "transformation_code" -> category_transformation_code
      [] role = "conditional_mapping" -> category_conditional_mapping
      [] role = "required" -> category_required
      [] role = "direct_map" -> category_direct_map
      [] role = "default_value" -> category_default_value

\* re.sub(r'[_\s-]+', '', s.lower())
RECURSIVE DropSeparators(_)
DropSeparators(s) ==
    IF s = <<>> THEN <<>>
    ELSE IF Head(s) \in {"_", " ", "-"} THEN DropSeparators(Tail(s))
    ELSE <<Head(s)>> \o DropSeparators(Tail(s))

NormaliseForSimilarity(s) == DropSeparators(StrLower(s))

Max(a, b) == IF a >= b THEN a ELSE b

\* one row of the longest-common-subsequence table, filled from the left
RECURSIVE LcsRowFrom(_, _, _, _)
LcsRowFrom(prev, c, b, cur) ==
    IF Len(cur) >= Len(b) THEN cur
    ELSE LET j == Len(cur) + 1
             left == IF j = 1 THEN 0 ELSE cur[j - 1]
             diag == IF j = 1 THEN 0 ELSE prev[j - 1]
             v == IF c = b[j] THEN diag + 1 ELSE Max(prev[j], left)
         IN LcsRowFrom(prev, c, b, Append(cur, v))

\* the table, one row per character of a, below a row of zeros
RECURSIVE LcsTable(_, _, _)
LcsTable(a, b, table) ==
    IF Len(table) > Len(a) THEN table
    ELSE LcsTable(a, b, Append(table, LcsRowFrom(table[Len(table)],
                                                 a[Len(table)], b, <<>>)))

\* length of the longest common subsequence
LcsLength(a, b) ==
    IF a = <<>> \/ b = <<>> THEN 0
    ELSE LcsTable(a, b, <<[j \in 1..Len(b) |-> 0]>>)[Len(a) + 1][Len(b)]

\* length of the common run of a[i..ahi] and b[j..bhi] that starts at i and j
RECURSIVE CommonRun(_, _, _, _, _, _)
CommonRun(a, i, ahi, b, j, bhi) ==
    IF i <= ahi /\ j <= bhi /\ a[i] = b[j]
    THEN 1 + CommonRun(a, i + 1, ahi, b, j + 1, bhi)
    ELSE 0

\* SequenceMatcher.find_longest_match: <<i, j, k>>, k maximal, then i minimal,
\* then j minimal; k = 0 when nothing matches
LongestMatch(a, alo, ahi, b, blo, bhi) ==
    LET runs == {<<i, j, CommonRun(a, i, ahi, b, j, bhi)>> :
                    i \in alo..ahi, j \in blo..bhi}
        best == {r \in runs : \A q \in runs : q[3] <= r[3]}
        first == {r \in best : \A q \in best : r[1] <= q[1]}
    IN IF runs = {} THEN <<alo, blo, 0>>
       ELSE CHOOSE r \in first : \A q \in first : r[2] <= q[2]

\* sum of the sizes of SequenceMatcher.get_matching_blocks
RECURSIVE MatchingTotal(_, _, _, _, _, _)
MatchingTotal(a, alo, ahi, b, blo, bhi) ==
    IF alo > ahi \/ blo > bhi THEN 0
    ELSE LET m == LongestMatch(a, alo, ahi, b, blo, bhi)
         IN IF m[3] = 0 THEN 0
            ELSE m[3]
                 + MatchingTotal(a, alo, m[1] - 1, b, blo, m[2] - 1)
                 + MatchingTotal(a, m[1] + m[3], ahi, b, m[2] + m[3], bhi)

\* a similarity is the fraction num / den, kept exact
Ratio(matched, a, b) ==
    IF Len(a) + Len(b) = 0 THEN [num |-> 1, den |-> 1]
    ELSE [num |-> 2 * matched, den |-> Len(a) + Len(b)]

\* fuzz.token_sort_ratio(s1, s2) / 100.0 on texts without whitespace
RapidFuzzSimilarity(s1, s2) == Ratio(LcsLength(s1, s2), s1, s2)

\* SequenceMatcher(None, s1, s2).ratio()
DifflibSimilarity(s1, s2) ==
    Ratio(MatchingTotal(s1, 1, Len(s1), s2, 1, Len(s2)), s1, s2)

get_similarity(rapidfuzz, str1, str2) ==
    LET s1 == NormaliseForSimilarity(str1)
        s2 == NormaliseForSimilarity(str2)
    IN IF rapidfuzz THEN RapidFuzzSimilarity(s1, s2) ELSE DifflibSimilarity(s1, s2)

ScoreGreater(s, t) == s.num * t.den > t.num * s.den

\* score >= confidence_threshold, the threshold given in tenths
ScoreAtLeast(s, tenths) == 10 * s.num >= tenths * s.den

\* the loop of find_best_match: best_score after the patterns from k on
RECURSIVE BestScoreFrom(_, _, _, _, _)
BestScoreFrom(rapidfuzz, column_name, patterns, k, best_score) ==
    IF k > Len(patterns) THEN best_score
    ELSE LET score == get_similarity(rapidfuzz, column_name, patterns[k])
         IN IF ScoreGreater(score, best_score)
            THEN BestScoreFrom(rapidfuzz, column_name, patterns, k + 1, score)
            ELSE BestScoreFrom(rapidfuzz, column_name, patterns, k + 1, best_score)

find_best_match(rapidfuzz, column_name, patterns) ==
    BestScoreFrom(rapidfuzz, column_name, patterns, 1, [num |-> 0, den |-> 1])

\* the headers mapping tables are drawn from
HeaderPool ==
    { <<"B", "e", "g", "i", "n", "n", "i", "n", "g">>,
      <<"E", "n", "d", "i", "n", "g">>,
      <<"s", "r", "c">>,
      <<"z", "z", "z">>,
      <<"C", "u", "s", "t", "o", "m">>,
      <<"O", "r", "i", "g", "n">>,
      <<"R", "e", "s", "l", "t">>,
      <<"q", "t", "y">>,
      <<"b", "g", "n">> }

\* best_score of find_best_match for every header of the pool, every role
\* and either similarity, computed once
BestScores ==
    { [rapidfuzz |-> rf, column |-> h, category |-> c,
       score |-> find_best_match(rf, h, categories(c))] :
         rf \in BOOLEAN, h \in HeaderPool, c \in Roles }

\* _, score = find_best_match(column, patterns)
BestScore(rapidfuzz, column, category) ==
    IF column \in HeaderPool
    THEN (CHOOSE e \in BestScores : /\ e.rapidfuzz = rapidfuzz
                                    /\ e.column = column
                                    /\ e.category = category).score
    ELSE find_best_match(rapidfuzz, column, categories(category))

\* a column_map with no role
EmptyMap == [r \in {} |-> <<>>]

\* all_matches before sorting: categories in dict order, columns in header
\* order, kept when the best score reaches the threshold
AllMatches(rapidfuzz, columns, tenths) ==
    LET n == Len(columns)
        pair(k) ==
            LET category == CategoryOrder[((k - 1) \div n) + 1]
                column == columns[((k - 1) % n) + 1]
            IN [score |-> BestScore(rapidfuzz, column, category),
                category |-> category,
                column |-> column]
        reaches(m) == ScoreAtLeast(m.score, tenths)
    IN SelectSeq([k \in 1..(Len(CategoryOrder) * n) |-> pair(k)], reaches)

\* where a match goes in a list sorted by falling score: behind every match
\* whose score is not smaller (the sort is stable)
InsertByScore(sorted, m) ==
    LET smaller(x) == ScoreGreater(m.score, x.score)
        k == FirstIndex(sorted, smaller)
    IN IF k = 0 THEN Append(sorted, m)
       ELSE SubSeq(sorted, 1, k - 1) \o <<m>> \o SubSeq(sorted, k, Len(sorted))

\* all_matches left in the order it was built in
SortByScoreKeepsOrder(matches, k, sorted) == matches

\* all_matches.sort(key=lambda x: x[0], reverse=True)
RECURSIVE SortByScore(_, _, _)
SortByScore(matches, k, sorted) ==
    IF k > Len(matches) THEN sorted
    ELSE SortByScore(matches, k + 1, InsertByScore(sorted, matches[k]))

\* the assignment loop over the sorted matches
RECURSIVE AssignFrom(_, _, _, _)
AssignFrom(matches, k, map, used_columns) ==
    IF k > Len(matches) THEN map
    ELSE LET m == matches[k]
         IN IF m.category \notin DOMAIN map /\ m.column \notin used_columns
            THEN AssignFrom(matches, k + 1, map @@ (m.category :> m.column),
                            used_columns \cup {m.column})
            ELSE AssignFrom(matches, k + 1, map, used_columns)

\* Tier 2; the threshold is given in tenths (6 is 0.6, 3 is 0.3)
fuzzy_match_columns(rapidfuzz, columns, tenths) ==
    AssignFrom(SortByScore(AllMatches(rapidfuzz, columns, tenths), 1, <<>>),
               1, EmptyMap, {})

\* for key, value in fuzzy_map.items(): if key not in column_map: ...
MergeMaps(map, fuzzy_map) == map @@ fuzzy_map

\* 'source' in column_map and 'target' in column_map
\* the check for source and target that never succeeds
HasEssentialNever(map) == FALSE

HasEssential(map) == "source" \in DOMAIN map /\ "target" \in DOMAIN map

\* the prompts of the interactive fallback asking for the source role alone
EssentialSourceOnly == <<"source">>

essential_mappings == <<"source", "target">>
optional_mappings == <<"transformation_code", "required", "direct_map", "default_value">>

MaxHeaders == 2

\* the header rows of mapping tables: distinct headers, in any order
RECURSIVE HeaderRows(_)
HeaderRows(n) ==
    IF n = 0 THEN {<<>>}
    ELSE {Append(row, h) : row \in HeaderRows(n - 1), h \in HeaderPool}

DistinctHeaderRows ==
    {row \in UNION {HeaderRows(n) : n \in 1..MaxHeaders} :
        \A i, j \in 1..Len(row) : i /= j => row[i] /= row[j]}

RolesIdle ==
    /\ r_pc = "idle"
    /\ headers = <<>>
    /\ RAPIDFUZZ_AVAILABLE = FALSE
    /\ column_map = EmptyMap
    /\ exact_map = EmptyMap
    /\ tiers_run = <<>>
    /\ ask_pos = 0
    /\ user_input = <<>>

----------------------------------------------------------------------------
(* apply_transformations: the texts of a mapping row *)

\* str(cell) of a mapping cell: a missing cell reads "nan"
CellText(cell) == IF IsNa(cell) THEN <<"n", "a", "n">> ELSE StrOf(cell)

\* str(raw).strip() if pd.notna(raw) else ""
TextOrEmpty(cell) == IF IsNa(cell) THEN <<>> ELSE StrStrip(StrOf(cell))

\* text.lower() in ["none", "n/a", "", "null", "nan"]
IsSentinel(text) ==
    StrLower(text) \in { <<"n", "o", "n", "e">>, <<"n", "/", "a">>, <<>>,
                         <<"n", "u", "l", "l">>, <<"n", "a", "n">> }

\* ' '.join(text.split())
RECURSIVE NormaliseSpaces(_)
NormaliseSpaces(s) ==
    LET t == LStrip(s)
    IN IF t = <<>> THEN <<>>
       ELSE IF Tail(t) /= <<>> /\ IsSpace(Head(Tail(t)))
       THEN IF LStrip(Tail(t)) = <<>> THEN <<Head(t)>>
            ELSE <<Head(t), " ">> \o NormaliseSpaces(Tail(t))
       ELSE <<Head(t)>> \o NormaliseSpaces(Tail(t))

----------------------------------------------------------------------------
(* fallback_conditional_parser: the six templates.  A matcher takes the text *)
(* and a position and gives the position after the match, 0 when the match  *)
(* fails or the position handed in is 0.                                    *)

IsQuote(c) == c \in {"\"", "'"}
IsAlnum(c) == IsAlpha(c) \/ IsDigit(c)

\* \s+
Spaces1(s, i) == IF i > 0 /\ i <= Len(s) /\ IsSpace(s[i]) THEN SkipSpaces(s, i) ELSE 0

\* \s*
Spaces0(s, i) == IF i > 0 THEN SkipSpaces(s, i) ELSE 0

\* a literal, letters compared without case
Literal(s, i, w) == IF i > 0 /\ HasWordAt(s, i, w) THEN i + Len(w) ELSE 0

\* index after the run of characters satisfying a test that starts at i
RECURSIVE SkipWord(_, _)
SkipWord(s, i) == IF i <= Len(s) /\ IsWord(s[i]) THEN SkipWord(s, i + 1) ELSE i

RECURSIVE SkipAlnum(_, _)
SkipAlnum(s, i) == IF i <= Len(s) /\ IsAlnum(s[i]) THEN SkipAlnum(s, i + 1) ELSE i

RECURSIVE SkipUnquoted(_, _)
SkipUnquoted(s, i) ==
    IF i <= Len(s) /\ ~IsQuote(s[i]) THEN SkipUnquoted(s, i + 1) ELSE i

\* \w+
Word1(s, i) == IF i > 0 /\ SkipWord(s, i) > i THEN SkipWord(s, i) ELSE 0

\* [A-Za-z0-9]+
Alnum1(s, i) == IF i > 0 /\ SkipAlnum(s, i) > i THEN SkipAlnum(s, i) ELSE 0

\* ["\']([^"\']+)["\'] : the group is SubSeq(s, i + 1, end - 2)
Quoted(s, i) ==
    IF i > 0 /\ i <= Len(s) /\ IsQuote(s[i]) /\ SkipUnquoted(s, i + 1) > i + 1
       /\ SkipUnquoted(s, i + 1) <= Len(s)
    THEN SkipUnquoted(s, i + 1) + 1
    ELSE 0

\* if\s+\w+\s*==\s*
IfEquals(s, i) ==
    Spaces0(s, Literal(s, Spaces0(s, Word1(s, Spaces1(s, Literal(s, i, <<"i", "f">>)))),
                       <<"=", "=">>))

\* \s+then\s+
Then(s, i) == Spaces1(s, Literal(s, Spaces1(s, i), <<"t", "h", "e", "n">>))

\* ,?\s*else\s+  (with \s* in front when lenient, as in template 6)
Else(s, i, lenient) ==
    LET a == IF lenient THEN Spaces0(s, i) ELSE i
        b == IF a > 0 /\ a <= Len(s) /\ s[a] = "," THEN a + 1 ELSE a
    IN Spaces1(s, Literal(s, Spaces0(s, b), <<"e", "l", "s", "e">>))

\* the code a template generates: what the lambda does with each value
NoCode == [template |-> "none", condition |-> <<>>, then |-> <<>>, else |-> <<>>]

\* templates 1 and 6 at position i
IfThenElseAt(s, i, lenient) ==
    LET c == IfEquals(s, i)
        t == Then(s, Quoted(s, c))
        e == Else(s, Quoted(s, t), lenient)
    IN IF Quoted(s, e) = 0 THEN NoCode
       ELSE [template |-> "if then else",
             condition |-> SubSeq(s, c + 1, Quoted(s, c) - 2),
             then |-> SubSeq(s, t + 1, Quoted(s, t) - 2),
             else |-> SubSeq(s, e + 1, Quoted(s, e) - 2)]

\* template 2 at position i: else \w+ keeps the value
IfThenKeepAt(s, i) ==
    LET c == IfEquals(s, i)
        t == Then(s, Quoted(s, c))
    IN IF Word1(s, Else(s, Quoted(s, t), FALSE)) = 0 THEN NoCode
       ELSE [template |-> "if then keep",
             condition |-> SubSeq(s, c + 1, Quoted(s, c) - 2),
             then |-> SubSeq(s, t + 1, Quoted(s, t) - 2),
             else |-> <<>>]

\* \s*else\s+ of template 3
ElseBare(s, i) == Spaces1(s, Literal(s, Spaces0(s, i), <<"e", "l", "s", "e">>))

\* template 3 at position i: if\s+\w+\s*=\s*A\s+then\s+B\s*else\s+C over letters
\* and digits; B is the longest run that still leaves "else" to be found
IfAssignAt(s, i) ==
    LET a == Spaces0(s, Literal(s, Spaces0(s, Word1(s, Spaces1(s,
                 Literal(s, i, <<"i", "f">>)))), <<"=">>))
        b == Then(s, Alnum1(s, a))
        ends == {k \in (b + 1)..Alnum1(s, b) : Alnum1(s, ElseBare(s, k)) > 0}
    IN IF b = 0 \/ ends = {} THEN NoCode
       ELSE LET k == CHOOSE x \in ends : \A y \in ends : y <= x
            IN [template |-> "if then else",
                condition |-> SubSeq(s, a, Alnum1(s, a) - 1),
                then |-> SubSeq(s, b, k - 1),
                else |-> SubSeq(s, ElseBare(s, k), Alnum1(s, ElseBare(s, k)) - 1)]

\* template 4 at position i:
\* when\s+\w+\s+equals?\s+A\s+set\s+to\s+B\s+otherwise\s+C
WhenEqualsAt(s, i) ==
    LET w == Literal(s, Spaces1(s, Word1(s, Spaces1(s,
                 Literal(s, i, <<"w", "h", "e", "n">>)))), <<"e", "q", "u", "a", "l">>)
        a == Spaces1(s, IF Literal(s, w, <<"s">>) > 0 THEN w + 1 ELSE w)
        b == Spaces1(s, Literal(s, Spaces1(s, Literal(s, Spaces1(s, Alnum1(s, a)),
                 <<"s", "e", "t">>)), <<"t", "o">>))
        c == Spaces1(s, Literal(s, Spaces1(s, Alnum1(s, b)),
                 <<"o", "t", "h", "e", "r", "w", "i", "s", "e">>))
    IN IF Alnum1(s, c) = 0 THEN NoCode
       ELSE [template |-> "if then else",
             condition |-> SubSeq(s, a, Alnum1(s, a) - 1),
             then |-> SubSeq(s, b, Alnum1(s, b) - 1),
             else |-> SubSeq(s, c, Alnum1(s, c) - 1)]

\* template 5: "Map M/F to Male/Female"
IsMapMaleFemale(s) ==
    /\ Contains(StrLower(s), <<"m", "a", "p">>)
    /\ Contains(s, <<"/">>)
    /\ Contains(StrLower(s), <<"m", "/", "f">>)
    /\ Contains(StrLower(s), <<"m", "a", "l", "e", "/", "f", "e", "m", "a", "l", "e">>)

\* re.search: the code of the first position at which a template matches
SearchTemplate(s, At(_)) ==
    IF \E i \in 1..Len(s) : At(i) /= NoCode
    THEN At(CHOOSE i \in 1..Len(s) : At(i) /= NoCode /\ \A j \in 1..(i - 1) : At(j) = NoCode)
    ELSE NoCode

\* the code generated for a conditional rule; NoCode stands for None
fallback_conditional_parser(conditional_str) ==
    IF IsSentinel(conditional_str) THEN NoCode
    ELSE LET text == StrStrip(conditional_str)
             normalized == NormaliseSpaces(text)
             t1(i) == IfThenElseAt(normalized, i, FALSE)
             t2(i) == IfThenKeepAt(normalized, i)
             t3(i) == IfAssignAt(normalized, i)
             t4(i) == WhenEqualsAt(normalized, i)
             t6(i) == IfThenElseAt(text, i, TRUE)
         IN IF SearchTemplate(normalized, t1) /= NoCode THEN SearchTemplate(normalized, t1)
            ELSE IF SearchTemplate(normalized, t2) /= NoCode
            THEN SearchTemplate(normalized, t2)
            ELSE IF SearchTemplate(normalized, t3) /= NoCode
            THEN SearchTemplate(normalized, t3)
            ELSE IF SearchTemplate(normalized, t4) /= NoCode
            THEN SearchTemplate(normalized, t4)
            ELSE IF IsMapMaleFemale(text)
            THEN [template |-> "upper m", condition |-> <<"M">>,
                  then |-> <<"M", "a", "l", "e">>,
                  else |-> <<"F", "e", "m", "a", "l", "e">>]
            ELSE SearchTemplate(text, t6)

\* the conversational parser is not wired in: both paths end in the fallback
llm_parse_conditional(conditional_text) ==
    IF IsSentinel(conditional_text) THEN NoCode
    ELSE fallback_conditional_parser(conditional_text)

\* str(x) of a value handed to the lambda
LambdaText(values, x) == IF IsNa(x) THEN <<"n", "a", "n">> ELSE CellStr(values, x)

\* the generated lambda applied to one value
ApplyLambda(code, values, x) ==
    LET text == StrStrip(LambdaText(values, x))
    IN IF code.template = "upper m"
       THEN IF StrUpper(text) = code.condition THEN Str(code.then) ELSE Str(code.else)
       ELSE IF text = code.condition THEN Str(code.then)
       ELSE IF code.template = "if then keep" THEN Str(LambdaText(values, x))
       ELSE Str(code.else)

\* parse_conditional_logic: the series the target column is set to
parse_conditional_logic(conditional_str, source_series) ==
    LET code == llm_parse_conditional(conditional_str)
    IN IF IsSentinel(conditional_str) \/ code = NoCode THEN source_series
       ELSE [k \in 1..Len(source_series) |-> ApplyLambda(code, source_series, source_series[k])]

----------------------------------------------------------------------------
(* apply_transformations: tables, expressions and one mapping row *)

\* name in table.columns
HasColumn(table, name) == \E i \in 1..Len(table) : table[i].name = name

\* table[name]
Column(table, name) == table[CHOOSE i \in 1..Len(table) : table[i].name = name].values

\* table[name] = values: in place when the column exists, else a new last column
SetColumn(table, name, values) ==
    IF HasColumn(table, name)
    THEN [i \in 1..Len(table) |->
            IF table[i].name = name THEN [name |-> name, values |-> values] ELSE table[i]]
    ELSE Append(table, [name |-> name, values |-> values])

\* series.fillna(default)
FillNa(values, default) ==
    [k \in 1..Len(values) |-> IF IsNa(values[k]) THEN Str(default) ELSE values[k]]

\* df_cleaned of apply_phone_transformations
apply_phone_transformations(table) ==
    [i \in 1..Len(table) |->
        IF table[i].name \in detect_phone_columns(table)
        THEN [name |-> table[i].name,
              values |-> [k \in 1..Len(table[i].values) |->
                            clean_phone_number(table[i].values[k])]]
        ELSE table[i]]

\* the name in  prefix['name']  when the text has that form, <<>> otherwise
SubscriptName(code, prefix) ==
    LET open == prefix \o <<"[", "'">>
        name == SubSeq(code, Len(open) + 1, Len(code) - 2)
    IN IF /\ Len(code) > Len(open) + 2
          /\ StartsWith(code, open)
          /\ SubSeq(code, Len(code) - 1, Len(code)) = <<"'", "]">>
          /\ \A k \in 1..Len(name) : IsWord(name[k])
       THEN name
       ELSE <<>>

\* eval(logic_code, {}, local_env) for the expressions mapping rows are drawn
\* from: df['c'], renamed['c'], an integer literal, today, 1/0.  A subscript
\* of a column that does not exist raises KeyError, 1/0 raises
\* ZeroDivisionError; today is datetime.today() taken when local_env is built,
\* an instant and not a date.
EvalExpression(logic_code, clean, derived) ==
    LET in_df == SubscriptName(logic_code, <<"d", "f">>)
        in_renamed == SubscriptName(logic_code, <<"r", "e", "n", "a", "m", "e", "d">>)
    IN IF in_df /= <<>> /\ HasColumn(clean, in_df)
       THEN [raised |-> FALSE, values |-> Column(clean, in_df)]
       ELSE IF in_renamed /= <<>> /\ HasColumn(derived, in_renamed)
       THEN [raised |-> FALSE, values |-> Column(derived, in_renamed)]
       ELSE IF StrIsDigit(logic_code)
       THEN [raised |-> FALSE,
             values |-> [k \in 1..NRows(clean) |-> Num(DigitsValue(logic_code))]]
       ELSE IF logic_code = <<"t", "o", "d", "a", "y">>
       THEN [raised |-> FALSE, values |-> [k \in 1..NRows(clean) |-> Num(clock)]]
       ELSE [raised |-> TRUE, values |-> <<>>]

\* the texts apply_transformations reads from one mapping row
required_of(row) == StrLower(StrStrip(CellText(row.required)))
default_of(row) == StrStrip(CellText(row.default_value))
logic_code_of(row) == TextOrEmpty(row.transformation_code)
conditional_logic_of(row) == TextOrEmpty(row.conditional_mapping)

\* if src not in df_clean.columns and logic_code == "" and conditional_logic == ""
IsSkipped(row, clean) ==
    /\ ~HasColumn(clean, row.src)
    /\ logic_code_of(row) = <<>>
    /\ conditional_logic_of(row) = <<>>

\* the condition of the "if" of step 2
HasConditional(row) == ~IsSentinel(conditional_logic_of(row))

\* the condition of the "elif" of step 3 (reached only when step 2's is false)
HasExpression(row) == ~IsSentinel(logic_code_of(row))

\* step 2 ran parse_conditional_logic and the rule produced code
ConditionalApplied(row, clean) ==
    /\ HasConditional(row)
    /\ HasColumn(clean, row.src)
    /\ llm_parse_conditional(conditional_logic_of(row)) /= NoCode

\* step 3 calls eval
ExpressionEvaluated(row, clean) ==
    ~IsSkipped(row, clean) /\ ~HasConditional(row) /\ HasExpression(row)

\* renamed after steps 1 to 3 of a row that is not skipped
AfterSteps123(row, clean, derived) ==
    LET base == IF HasColumn(clean, row.src)
                THEN SetColumn(derived, row.tgt, Column(clean, row.src))
                ELSE derived
    IN IF HasConditional(row)
       THEN IF HasColumn(clean, row.src)
            THEN SetColumn(base, row.tgt,
                           parse_conditional_logic(conditional_logic_of(row),
                                                   Column(clean, row.src)))
            ELSE base
       ELSE IF HasExpression(row)
            THEN LET result == EvalExpression(logic_code_of(row), clean, base)
                 IN IF result.raised THEN base
                    ELSE SetColumn(base, row.tgt, result.values)
            ELSE base

\* step 4 applies a default value
HasDefault(row) == ~IsSentinel(default_of(row))

\* steps 4 and 5 read renamed[tgt]: KeyError when that column does not exist
RowRaisesKeyError(row, clean, derived) ==
    /\ ~IsSkipped(row, clean)
    /\ ~HasColumn(AfterSteps123(row, clean, derived), row.tgt)
    /\ (HasDefault(row) \/ required_of(row) = <<"y", "e", "s">>)

\* renamed after the whole loop body for one row that does not raise
AfterRow(row, clean, derived) ==
    IF IsSkipped(row, clean) THEN derived
    ELSE LET after == AfterSteps123(row, clean, derived)
         IN IF HasDefault(row)
            THEN SetColumn(after, row.tgt, FillNa(Column(after, row.tgt), default_of(row)))
            ELSE after

\* the target cell of a mapping row that is missing (NaN); no header and no
\* target name is spelled like it
MissingTarget == <<"NaN">>

\* mapping_df[col_map['target']].dropna().unique().tolist()
RECURSIVE UniqueTargets(_, _)
UniqueTargets(rows, seen) ==
    IF rows = <<>> THEN seen
    ELSE UniqueTargets(Tail(rows),
                       IF Head(rows).tgt = MissingTarget \/ Head(rows).tgt \in SeqRange(seen)
                       THEN seen
                       ELSE Append(seen, Head(rows).tgt))

\* the whole table instead of the selected columns
SelectColumnsKeepsSource(table, names) == table

\* renamed[target_cols]
SelectColumns(table, names) ==
    [i \in 1..Len(names) |-> [name |-> names[i], values |-> Column(table, names[i])]]

TransformIdle ==
    /\ t_pc = "idle"
    /\ source_table = <<>>
    /\ mapping_rows = <<>>
    /\ df_clean = <<>>
    /\ renamed = <<>>
    /\ row_pos = 0
    /\ evaluated = {}
    /\ conditional_applied = {}
    /\ derived_table = <<>>
    /\ clock = 0
    /\ calls = 0
    /\ previous_table = <<>>

----------------------------------------------------------------------------
(* validate_dataset as a process *)

ValidateIdle ==
    /\ v_pc = "idle"
    /\ df = <<>>
    /\ ge = [installed |-> FALSE, available |-> FALSE, throwing |-> "none",
             unexpected |-> 0]
    /\ project_id = 0
    /\ v_pos = 0
    /\ summary = <<>>
    /\ validation_rules = <<>>
    /\ v_runs = 0

\* import great_expectations as ge, at the top of the module that defines
\* validate_dataset: without the package the import raises and nothing of the
\* module is defined
ImportValidator ==
    /\ v_pc = "import"
    /\ v_pc' = IF ge.installed THEN "start" ELSE "raised ImportError"
    /\ UNCHANGED <<df, ge, project_id, v_pos, summary, validation_rules, v_runs,
                   otherThanValidate>>

\* create_ge_dataframe(df) is None: simplified mode
ValidateSimplified ==
    /\ v_pc = "start"
    /\ ~ge.available
    /\ summary' = simplified_validation(df)
    /\ v_pc' = "done"
    /\ UNCHANGED <<df, ge, project_id, v_pos, validation_rules, v_runs, otherThanValidate>>

\* create_ge_dataframe(df) is a dataset: the rule loop starts
ValidateFull ==
    /\ v_pc = "start"
    /\ ge.available
    /\ summary' = <<>>
    /\ v_pos' = 0
    /\ v_pc' = "rules"
    /\ UNCHANGED <<df, ge, project_id, validation_rules, v_runs, otherThanValidate>>

\* one pass of the loop body: one rule applied to one column
ApplyRule ==
    /\ v_pc = "rules"
    /\ v_pos < Len(df) * RulesPerColumn
    /\ LET col == df[(v_pos \div RulesPerColumn) + 1]
           k == v_pos % RulesPerColumn
           res == LoopResult(ge, df, col, NthDimension(k), NthRule(k))
       IN /\ summary' = Append(summary, res)
          /\ validation_rules' =
                StoreAfterRule(validation_rules,
                               RuleRaises(GeResult(ge, df, col, NthRule(k))), res,
                               project_id)
    /\ v_pos' = v_pos + 1
    /\ UNCHANGED <<v_pc, df, ge, project_id, v_runs, otherThanValidate>>

\* return pd.DataFrame(summary)
ReturnSummary ==
    /\ v_pc = "rules"
    /\ v_pos = Len(df) * RulesPerColumn
    /\ v_pc' = "done"
    /\ UNCHANGED <<df, ge, project_id, v_pos, summary, validation_rules, v_runs,
                   otherThanValidate>>

----------------------------------------------------------------------------
(* Phone round trip: validate_phone_number(clean_phone_number(x)) *)

MaxPhoneDigits == 12

\* n digits, the first one given
PhoneDigits(first, n) ==
    [i \in 1..n |-> IF i = 1 THEN first ELSE DigitChars[(i % 10) + 1]]

\* the same digits written plainly, with dashes, or as (AAA) BBB...
PhoneLayout(style, d) ==
    IF style = "plain" \/ Len(d) < 7 THEN d
    ELSE IF style = "dashed"
    THEN SubSeq(d, 1, 3) \o <<"-">> \o SubSeq(d, 4, 6) \o <<"-">>
         \o SubSeq(d, 7, Len(d))
    ELSE <<"(">> \o SubSeq(d, 1, 3) \o <<")", " ">> \o SubSeq(d, 4, 6)
         \o <<"-">> \o SubSeq(d, 7, Len(d))

PhoneSuffixes ==
    { <<>>, <<"x", "1", "5">>, <<" ", "E", "x", "t", ".", " ", "7">>,
      <<" ", "e", "x", "t", "e", "n", "s", "i", "o", "n", "4", "2">>,
      <<" ", "e", "x", "t">> }

PhoneInputs ==
    {Null, Str(<<>>), Str(<<" ">>), Num(5551234), Num(42)}
    \cup { Str(PhoneLayout(style, PhoneDigits(first, n)) \o suffix) :
             style \in {"plain", "dashed", "paren"},
             first \in {"1", "8"},
             n \in 1..MaxPhoneDigits,
             suffix \in PhoneSuffixes }

PhoneIdle ==
    /\ ph_pc = "idle"
    /\ phone_str = Null
    /\ formatted = Null
    /\ phone_ok = FALSE

PhoneInit ==
    /\ ph_pc = "start"
    /\ phone_str \in PhoneInputs
    /\ formatted = Null
    /\ phone_ok = FALSE
    /\ ValidateIdle
    /\ RolesIdle
    /\ TransformIdle

CleanPhone ==
    /\ ph_pc = "start"
    /\ formatted' = clean_phone_number(phone_str)
    /\ ph_pc' = "cleaned"
    /\ UNCHANGED <<phone_str, phone_ok, otherThanPhone>>

ValidatePhone ==
    /\ ph_pc = "cleaned"
    /\ phone_ok' = validate_phone_number(formatted)
    /\ ph_pc' = "validated"
    /\ UNCHANGED <<phone_str, formatted, otherThanPhone>>

PhoneNext == CleanPhone \/ ValidatePhone

SpecPhone == PhoneInit /\ [][PhoneNext]_vars

NonEmptyPhone(v) == ~IsNa(v) /\ v /= Str(<<>>)

\* C6 as stated: after the round trip, every non-empty input whose digits
\* (non-digits stripped) number 7, 10 or 11 validates, an 11-digit input
\* not starting with 1 included.
C6_RoundTripAsStated ==
    (ph_pc = "validated" /\ NonEmptyPhone(phone_str)
        /\ Len(KeepDigits(StrOf(phone_str))) \in {7, 10, 11})
    => phone_ok

\* C6 amended: after the round trip, every non-empty input validates when
\* the digits left after removing extension suffixes and non-digits number
\* 7 or 10, or number 11 and start with 1.
C6_RoundTripAmended ==
    (ph_pc = "validated" /\ NonEmptyPhone(phone_str)
        /\ (\/ Len(CleanDigits(phone_str)) \in {7, 10}
            \/ (Len(CleanDigits(phone_str)) = 11
                  /\ StartsWith(CleanDigits(phone_str), <<"1">>))))
    => phone_ok

\* an 11-digit input with country code 1 and an extension went through the
\* round trip and validated
C6_Witness ==
    /\ ph_pc = "validated"
    /\ Len(CleanDigits(phone_str)) = 11
    /\ Len(KeepDigits(StrOf(phone_str))) > 11
    /\ phone_ok

----------------------------------------------------------------------------
(* Validation runs: the tables and backends the runs are drawn from *)

MaxRows == 3
LongRun == 10

ValuePool ==
    { Null, Num(1), Num(2),
      Str(<<"a", "b">>), Str(<<"1", "2">>), Str(<<"1", "-", "2">>), Str(<<" ">>),
      Str(<<"+", "1", "-", "8", "1", "5", "-", "4", "5", "4", "-", "1", "0", "4", "1">>),
      Str(<<"8", "1", "5", "-", "4", "5", "4", "-", "1", "0", "4", "1">>) }

\* full mode reads the values of a column only through isnull()
FullModeValues == {Null, Str(<<"a", "b">>)}

ColumnNames == { <<"a", "g", "e">>, <<"P", "h", "o", "n", "e">> }

ColumnsOver(values, n) ==
    {[name |-> nm, values |-> vs] : nm \in ColumnNames, vs \in [1..n -> values]}

SecondColumns(n) ==
    { [name |-> <<"i", "d">>, values |-> [i \in 1..n |-> Num(i)]],
      [name |-> <<"n", "o", "t", "e">>, values |-> [i \in 1..n |-> Null]] }

TablesOver(values) ==
    {<<>>} \cup
    UNION { {<<c>> : c \in ColumnsOver(values, n)}
            \cup {<<c, d>> : c \in ColumnsOver(values, n), d \in SecondColumns(n)} :
            n \in 0..MaxRows }

\* a long numeric column: a run of 0 and one 9, which is an outlier once the
\* run is long enough
LongTables ==
    { << [name |-> <<"a", "g", "e">>,
          values |-> [i \in 1..(k + 1) |-> IF i <= k THEN Num(0) ELSE Num(9)]] >> :
      k \in (LongRun - 1)..LongRun }

SampleSize == 5

DashedPhone == <<"8", "1", "5", "-", "4", "5", "4", "-", "1", "0", "4", "1">>

\* a text column without a phone keyword in its header: k values shaped like
\* a phone number, then plain text
SampleTables ==
    { << [name |-> <<"a", "g", "e">>,
          values |-> [i \in 1..SampleSize |->
                        IF i <= k THEN Str(DashedPhone) ELSE Str(<<"a", "b">>)]] >> :
      k \in 0..SampleSize }

ThrowingChoices ==
    { "none", "expect_column_values_to_not_be_null",
      "expect_column_values_to_be_of_type", "expect_column_median_to_be_between" }

\* the package is missing; or it is there and create_ge_dataframe fails; or
\* it is there and gives a dataset
GeBackends ==
    {[installed |-> i, available |-> FALSE, throwing |-> "none", unexpected |-> 0] :
        i \in BOOLEAN}
    \cup {[installed |-> TRUE, available |-> TRUE, throwing |-> t, unexpected |-> u] :
            t \in ThrowingChoices, u \in 0..MaxRows}

ValidateInit ==
    /\ v_pc = "import"
    /\ ge \in GeBackends
    /\ df \in (IF ge.available THEN TablesOver(FullModeValues)
               ELSE TablesOver(ValuePool) \cup LongTables \cup SampleTables)
    /\ project_id = 1
    /\ v_pos = 0
    /\ summary = <<>>
    /\ validation_rules = <<>>
    /\ v_runs = 0
    /\ PhoneIdle
    /\ RolesIdle
    /\ TransformIdle

ValidateNext ==
    \/ ImportValidator
    \/ ValidateSimplified
    \/ ValidateFull
    \/ ApplyRule
    \/ ReturnSummary

SpecValidate == ValidateInit /\ [][ValidateNext]_vars

CountsAddUp(r) ==
    r.number_of_rows_passed + r.number_of_rows_failed = r.total_rows_evaluated

\* C1: in simplified mode every RuleResult has
\* number_of_rows_passed + number_of_rows_failed = total_rows_evaluated.
C1_SimplifiedCountsAddUp ==
    (v_pc = "done" /\ ~ge.available)
    => \A i \in 1..Len(summary) : CountsAddUp(summary[i])

\* C2: in full mode every RuleResult with status "Rule Applied" has
\* number_of_rows_passed + number_of_rows_failed = total_rows_evaluated.
C2_FullCountsAddUp ==
    ge.available
    => \A i \in 1..Len(summary) :
          summary[i].rule_application_status = "Rule Applied"
          => CountsAddUp(summary[i])

\* C3: in both modes, a RuleResult with total_rows_evaluated > 0 has
\* passed_score = round(100 * number_of_rows_passed / total_rows_evaluated, 2).
C3_ScoreMatchesCounts ==
    \A i \in 1..Len(summary) :
        summary[i].total_rows_evaluated > 0
        => summary[i].passed_score
             = Score2(summary[i].number_of_rows_passed, summary[i].total_rows_evaluated)

\* C15: every RuleResult of either mode has failed_score equal to
\* round(100 - passed_score, 2), which in hundredths is 10000 - passed_score:
\* the two scores add up to 100.
C15_ScoresAreComplements ==
    \A i \in 1..Len(summary) :
        summary[i].failed_score = 10000 - summary[i].passed_score

\* a full-mode run ended with a degraded result and with a result whose score
\* is neither 0 nor 100
C15_Witness ==
    /\ v_pc = "done"
    /\ ge.available
    /\ \E i, j \in 1..Len(summary) :
          /\ summary[i].rule_application_status = "Rule Not Applied"
          /\ summary[j].passed_score \notin {0, 10000}

\* the number of results of one column in the mode of the run
ResultsPerColumn == IF ge.available THEN 25 ELSE 5

\* C19: a finished run has one RuleResult per rule instantiation, 25 per
\* column in full mode (5 for each dimension) and 5 per column in simplified
\* mode (one for each dimension), in column order and dimension order.
C19_OneResultPerRule ==
    v_pc = "done" =>
        /\ Len(summary) = Len(df) * ResultsPerColumn
        /\ \A i \in 1..Len(summary) :
              /\ summary[i].column_name = df[((i - 1) \div ResultsPerColumn) + 1].name
              /\ summary[i].dimension
                    = DIMENSIONS[(((i - 1) % ResultsPerColumn)
                                   \div (ResultsPerColumn \div 5)) + 1]

\* a simplified run over two columns, the second without a non-missing value
C19_Witness ==
    /\ v_pc = "done"
    /\ ~ge.available
    /\ Len(df) = 2
    /\ NRows(df) > 0
    /\ DropNa(df[2].values) = <<>>
    /\ Len(summary) = 10

\* C20: in full mode the result of a rule that throws has status "Rule Not
\* Applied", no row passed, every row of the table failed, passed_score 0 and
\* failed_score 100; the loop goes on, so a finished run has a result for
\* every rule of every column, and a rule that does not throw on a column
\* with a non-missing value has status "Rule Applied".
C20_ThrowingRuleIsDegraded ==
    ge.available =>
        /\ \A i \in 1..Len(summary) :
              IF summary[i].rule_type = ge.throwing
              THEN /\ summary[i].rule_application_status = "Rule Not Applied"
                   /\ summary[i].number_of_rows_passed = 0
                   /\ summary[i].number_of_rows_failed = NRows(df)
                   /\ summary[i].total_rows_evaluated = NRows(df)
                   /\ summary[i].passed_score = 0
                   /\ summary[i].failed_score = 10000
              ELSE DropNa(df[((i - 1) \div RulesPerColumn) + 1].values) /= <<>>
                   => summary[i].rule_application_status = "Rule Applied"
        /\ v_pc = "done" => Len(summary) = Len(df) * RulesPerColumn

\* a full-mode run over two columns ended; its first rule threw on both
\* columns and the rules after it were applied
C20_Witness ==
    /\ v_pc = "done"
    /\ ge.throwing = "expect_column_values_to_not_be_null"
    /\ Len(df) = 2
    /\ NRows(df) > 1
    /\ summary[1].rule_application_status = "Rule Not Applied"
    /\ summary[2].rule_application_status = "Rule Applied"
    /\ summary[RulesPerColumn + 1].number_of_rows_failed = NRows(df)

\* the header of a column contains a phone keyword
HasPhoneKeyword(col) ==
    \E k \in 1..Len(phone_keywords) : Contains(StrLower(col.name), phone_keywords[k])

\* the validity result of a column says it was checked as a phone column
CheckedAsPhone(result) ==
    result.friendly_rule_name
        \in {"Phone Number Format", "Phone Number Format (^\\+1-\\d{3}-\\d{3}-\\d{4}$)"}

\* C21: in a finished simplified run, a text column without a phone keyword
\* and with a non-missing value was detected as a phone column exactly when
\* at least 60% of its sampled values are phone-shaped; with exactly 60% it
\* was detected.
C21_DetectedFromSixtyPercent ==
    (v_pc = "done" /\ ~ge.available) =>
        \A i \in 1..Len(df) :
            (/\ ~HasPhoneKeyword(df[i])
             /\ IsObjectColumn(df[i].values)
             /\ Len(PhoneSample(df[i].values)) > 0)
            => (CheckedAsPhone(summary[5 * (i - 1) + 3])
                  <=> 10 * CountOf(PhoneSample(df[i].values), LooksLikePhone)
                        >= 6 * Len(PhoneSample(df[i].values)))

\* C30: a finished simplified run over a table with columns and no rows
\* reports, for every column, completeness with passed score 0 and failed
\* score 100 and each of the four other dimensions with passed score 100 and
\* failed score 0, all five over 0 evaluated rows.
C30_ZeroRowScores ==
    (v_pc = "done" /\ ~ge.available /\ NRows(df) = 0) =>
        \A i \in 1..Len(summary) :
            /\ summary[i].total_rows_evaluated = 0
            /\ summary[i].passed_score
                  = IF summary[i].dimension = "completeness" THEN 0 ELSE 10000
            /\ summary[i].failed_score
                  = IF summary[i].dimension = "completeness" THEN 10000 ELSE 0

\* a finished simplified run over two columns without rows
C30_Witness ==
    /\ v_pc = "done"
    /\ ~ge.available
    /\ Len(df) = 2
    /\ NRows(df) = 0
    /\ Len(summary) = 10

\* C12: every RuleResult of a run, in either mode, has
\* rule_application_status "Rule Applied" or "Rule Not Applied".
C12_StatusAppliedOrNotApplied ==
    \A i \in 1..Len(summary) :
        summary[i].rule_application_status \in {"Rule Applied", "Rule Not Applied"}

\* C13: a run whose rule-evaluation backend is unavailable, the package
\* missing or create_ge_dataframe returning None, does not end in an error.
C13_UnavailableBackendDowngrades ==
    ~ge.available => v_pc /= "raised ImportError"

----------------------------------------------------------------------------
(* validate_dataset called again and again against the same store *)

MaxRuns == 2

\* one-row tables of one column, and the backends of full mode
RunTables ==
    { << [name |-> <<"a", "g", "e">>, values |-> <<Str(<<"a", "b">>)>>] >>,
      << [name |-> <<"a", "g", "e">>, values |-> <<Null>>] >>,
      << [name |-> <<"P", "h", "o", "n", "e">>, values |-> <<Str(<<"a", "b">>)>>] >> }

RunBackends ==
    { [installed |-> TRUE, available |-> TRUE, throwing |-> "none", unexpected |-> 0],
      [installed |-> TRUE, available |-> TRUE, throwing |-> "none", unexpected |-> 1],
      [installed |-> TRUE, available |-> TRUE,
       throwing |-> "expect_column_values_to_not_be_null", unexpected |-> 0] }

ProjectIds == 1..2

\* validate_dataset(df, project_id) is called once more; the store keeps its
\* rows
ValidateAgain ==
    /\ v_pc = "done"
    /\ v_runs + 1 < MaxRuns
    /\ v_runs' = v_runs + 1
    /\ df' \in RunTables
    /\ ge' \in RunBackends
    /\ project_id' \in ProjectIds
    /\ v_pos' = 0
    /\ summary' = <<>>
    /\ v_pc' = "start"
    /\ UNCHANGED <<validation_rules, otherThanValidate>>

RunsInit ==
    /\ v_pc = "import"
    /\ ge \in RunBackends
    /\ df \in RunTables
    /\ project_id = 1
    /\ v_pos = 0
    /\ summary = <<>>
    /\ validation_rules = <<>>
    /\ v_runs = 0
    /\ PhoneIdle
    /\ RolesIdle
    /\ TransformIdle

RunsNext ==
    \/ ImportValidator
    \/ ValidateFull
    \/ ApplyRule
    \/ ReturnSummary
    \/ ValidateAgain

SpecValidateRuns == RunsInit /\ [][RunsNext]_vars

\* C25: after any sequence of full-mode runs, no two records of the store have
\* the same column_name, rule_type, dimension and project_id.
C25_OneRecordPerKey ==
    \A j \in 1..Len(validation_rules) :
        \A i \in 1..(j - 1) :
            ~SameKey(validation_rules[i], validation_rules[j].column_name,
                     validation_rules[j].rule_type, validation_rules[j].dimension,
                     validation_rules[j].project_id)

\* a second run over the keys of the first has returned and the store has the
\* 25 records of one column
C25_Witness ==
    /\ v_runs = 1
    /\ v_pc = "done"
    /\ Len(summary) = 25
    /\ Len(validation_rules) = 25

\* the loop body has just appended a result that says "Rule Not Applied"
RuleJustThrew ==
    /\ v_pc = "rules"
    /\ Len(summary') = Len(summary) + 1
    /\ summary'[Len(summary')].rule_application_status = "Rule Not Applied"

\* C29: a pass of the full-mode loop whose rule throws leaves every record of
\* the store as it was, the record an earlier run persisted for the same key
\* included.
C29_ThrowingRuleLeavesStore ==
    [][RuleJustThrew => validation_rules' = validation_rules]_vars

\* the last result says "Rule Not Applied" while the store holds, from the run
\* before, a record of the same key with status "Rule Applied" and a passed
\* row
C29_Witness ==
    /\ v_runs = 1
    /\ v_pc = "rules"
    /\ summary /= <<>>
    /\ LET res == summary[Len(summary)]
       IN /\ res.rule_application_status = "Rule Not Applied"
          /\ \E i \in 1..Len(validation_rules) :
                /\ SameKey(validation_rules[i], res.column_name, res.rule_type,
                           res.dimension, project_id)
                /\ validation_rules[i].rule_application_status = "Rule Applied"
                /\ validation_rules[i].number_of_rows_passed > 0

----------------------------------------------------------------------------
(* detect_column_mappings as a process, called by apply_transformations *)

\* Tier 1: exact pattern matching
TierExact ==
    /\ r_pc = "start"
    /\ LET map == detect_column_mappings_exact(headers)
       IN /\ column_map' = map
          /\ exact_map' = map
          /\ r_pc' = IF HasEssential(map) THEN "returned" ELSE "fuzzy"
    /\ tiers_run' = Append(tiers_run, "exact")
    /\ UNCHANGED <<headers, RAPIDFUZZ_AVAILABLE, ask_pos, user_input, otherThanRoles>>

\* Tier 2 at confidence 0.6
TierFuzzy ==
    /\ r_pc = "fuzzy"
    /\ LET map == MergeMaps(column_map,
                            fuzzy_match_columns(RAPIDFUZZ_AVAILABLE, headers, 6))
       IN /\ column_map' = map
          /\ r_pc' = IF HasEssential(map) THEN "returned" ELSE "relaxed"
    /\ tiers_run' = Append(tiers_run, "fuzzy 0.6")
    /\ UNCHANGED <<headers, RAPIDFUZZ_AVAILABLE, exact_map, ask_pos, user_input,
                   otherThanRoles>>

\* Tier 2 at confidence 0.3; when it fails too, Tier 3 starts from an empty
\* column_map and waits at its first input()
TierRelaxedFuzzy ==
    /\ r_pc = "relaxed"
    /\ LET map == MergeMaps(column_map,
                            fuzzy_match_columns(RAPIDFUZZ_AVAILABLE, headers, 3))
       IN IF HasEssential(map)
          THEN /\ column_map' = map
               /\ r_pc' = "returned"
               /\ tiers_run' = Append(tiers_run, "fuzzy 0.3")
               /\ ask_pos' = ask_pos
          ELSE /\ column_map' = EmptyMap
               /\ r_pc' = "ask"
               /\ tiers_run' = tiers_run \o <<"fuzzy 0.3", "interactive">>
               /\ ask_pos' = 1
    /\ UNCHANGED <<headers, RAPIDFUZZ_AVAILABLE, exact_map, user_input, otherThanRoles>>

\* what may be typed at a prompt: a header, a header with blanks around it,
\* a name that is no header, or nothing
Answers ==
    {headers[1], <<" ">> \o headers[Len(headers)] \o <<" ">>, <<"n", "o">>, <<>>}

\* one pass of "while mapping not in column_map": an answer is read
AskEssential ==
    /\ r_pc = "ask"
    /\ \E answer \in Answers :
        /\ user_input' = StrStrip(answer)
        /\ IF user_input' \in SeqRange(headers)
           THEN /\ column_map' = column_map @@ (essential_mappings[ask_pos] :> user_input')
                /\ IF ask_pos = Len(essential_mappings)
                   THEN r_pc' = "ask_optional" /\ ask_pos' = 1
                   ELSE r_pc' = r_pc /\ ask_pos' = ask_pos + 1
           ELSE UNCHANGED <<column_map, r_pc, ask_pos>>
    /\ UNCHANGED <<headers, RAPIDFUZZ_AVAILABLE, exact_map, tiers_run, otherThanRoles>>

\* one pass of "for mapping in optional_mappings"
AskOptional ==
    /\ r_pc = "ask_optional"
    /\ \E answer \in Answers :
        /\ user_input' = StrStrip(answer)
        /\ column_map' =
              IF user_input' /= <<>> /\ user_input' \in SeqRange(headers)
              THEN column_map @@ (optional_mappings[ask_pos] :> user_input')
              ELSE column_map
    /\ IF ask_pos = Len(optional_mappings)
       THEN r_pc' = "returned" /\ ask_pos' = 0
       ELSE r_pc' = r_pc /\ ask_pos' = ask_pos + 1
    /\ UNCHANGED <<headers, RAPIDFUZZ_AVAILABLE, exact_map, tiers_run, otherThanRoles>>

\* input() at end of input raises EOFError, which nothing catches
InputClosed ==
    /\ r_pc \in {"ask", "ask_optional"}
    /\ r_pc' = "raised EOFError"
    /\ UNCHANGED <<headers, RAPIDFUZZ_AVAILABLE, column_map, exact_map, tiers_run,
                   ask_pos, user_input, otherThanRoles>>

\* apply_transformations after detect_column_mappings returned: without the
\* essential roles it returns the phone-cleaned table, with them it goes on to
\* the mapping rows and returns the derived table
CheckEssentialColumns ==
    /\ r_pc = "returned"
    /\ r_pc' = IF HasEssential(column_map) THEN "mapping rows" ELSE "returned df_clean"
    /\ UNCHANGED <<headers, RAPIDFUZZ_AVAILABLE, column_map, exact_map, tiers_run,
                   ask_pos, user_input, otherThanRoles>>

RolesInit ==
    /\ r_pc = "start"
    /\ headers \in DistinctHeaderRows
    /\ RAPIDFUZZ_AVAILABLE \in BOOLEAN
    /\ column_map = EmptyMap
    /\ exact_map = EmptyMap
    /\ tiers_run = <<>>
    /\ ask_pos = 0
    /\ user_input = <<>>
    /\ PhoneIdle
    /\ ValidateIdle
    /\ TransformIdle

RolesNext ==
    \/ TierExact
    \/ TierFuzzy
    \/ TierRelaxedFuzzy
    \/ AskEssential
    \/ AskOptional
    \/ InputClosed
    \/ CheckEssentialColumns

SpecRoles == RolesInit /\ [][RolesNext]_vars

\* what the three automatic passes leave in column_map
AutomaticMap(rapidfuzz, columns) ==
    MergeMaps(MergeMaps(detect_column_mappings_exact(columns),
                        fuzzy_match_columns(rapidfuzz, columns, 6)),
              fuzzy_match_columns(rapidfuzz, columns, 3))

\* detect_column_mappings waiting at the first prompt of Tier 3: the state
\* TierRelaxedFuzzy leaves when the automatic passes have failed
AtFirstPrompt ==
    /\ r_pc = "ask"
    /\ headers \in DistinctHeaderRows
    /\ RAPIDFUZZ_AVAILABLE \in BOOLEAN
    /\ ~HasEssential(AutomaticMap(RAPIDFUZZ_AVAILABLE, headers))
    /\ column_map = EmptyMap
    /\ exact_map = detect_column_mappings_exact(headers)
    /\ tiers_run = <<"exact", "fuzzy 0.6", "fuzzy 0.3", "interactive">>
    /\ ask_pos = 1
    /\ user_input = <<>>

PromptInit ==
    /\ AtFirstPrompt
    /\ PhoneIdle
    /\ ValidateIdle
    /\ TransformIdle

PromptNext ==
    \/ AskEssential
    \/ AskOptional
    \/ InputClosed
    \/ CheckEssentialColumns

\* Tier 3 from its first prompt on. The program keeps running while it can
\* take a step; what is typed at a prompt is not constrained.
FairSpecPrompt == PromptInit /\ [][PromptNext]_vars /\ WF_vars(PromptNext)

----------------------------------------------------------------------------
(* Role resolution: what a run of detect_column_mappings guarantees *)

Beginning == <<"B", "e", "g", "i", "n", "n", "i", "n", "g">>
Ending == <<"E", "n", "d", "i", "n", "g">>

\* the mapping table has the headers "Beginning" and "Ending" and no other
OnlyBeginningEnding == SeqRange(headers) = {Beginning, Ending}

\* detect_column_mappings has returned (apply_transformations may have gone on)
ResolutionReturned == r_pc \in {"returned", "mapping rows", "returned df_clean"}

\* Tier 1 and both fuzzy passes failed to resolve source and target
TiersFailed == "interactive" \in SeqRange(tiers_run)

\* C10 as stated: for the headers "Beginning" and "Ending", Tier 1 alone does
\* not resolve target, and source and target are resolved by Tier 2 at 0.6.
C10_SynonymsNeedTierTwo ==
    (OnlyBeginningEnding /\ ResolutionReturned) =>
        /\ "target" \notin DOMAIN exact_map
        /\ tiers_run = <<"exact", "fuzzy 0.6">>
        /\ HasEssential(column_map)

\* C10 amended: for the headers "Beginning" and "Ending", Tier 1 alone resolves
\* source to "Beginning" (pattern 'beginning') and target to "Ending" (pattern
\* 'end'), so no fuzzy pass runs; Tier 2 at 0.6 on the same headers would
\* resolve the two roles to the same headers.
C10_SynonymsResolvedByTierOne ==
    (OnlyBeginningEnding /\ ResolutionReturned) =>
        /\ tiers_run = <<"exact">>
        /\ exact_map = [source |-> Beginning, target |-> Ending]
        /\ column_map = exact_map
        /\ fuzzy_match_columns(RAPIDFUZZ_AVAILABLE, headers, 6)
              = [source |-> Beginning, target |-> Ending]

C10_Witness ==
    /\ OnlyBeginningEnding
    /\ r_pc = "mapping rows"
    /\ column_map = [source |-> Beginning, target |-> Ending]

\* C7: when neither Tier 1 nor Tier 2 resolves both source and target, role
\* resolution ends in an error: detect_column_mappings does not return a
\* column_map and apply_transformations does not go on to produce a table.
C7_UnresolvedRolesAreAnError ==
    TiersFailed => r_pc \notin {"returned", "mapping rows", "returned df_clean"}

\* C8: when detect_column_mappings has returned, every role Tier 1 resolved
\* still has its Tier-1 header in the column_map.
C8_TierOneRolesKept ==
    ResolutionReturned =>
        \A role \in DOMAIN exact_map :
            role \in DOMAIN column_map /\ column_map[role] = exact_map[role]

\* C9: every run of role resolution comes to an end: detect_column_mappings
\* returns or raises, whatever is typed at the prompts.
C9_ResolutionTerminates ==
    <>(r_pc \in {"mapping rows", "returned df_clean", "raised EOFError"})

\* the roles a fuzzy pass of Tier 2 added to column_map
TierTwoRoles == DOMAIN column_map \ DOMAIN exact_map

\* a fuzzy pass has run and Tier 3 has not reset column_map
AfterTierTwo == "fuzzy 0.6" \in SeqRange(tiers_run) /\ ~TiersFailed

\* C11: after a fuzzy pass of Tier 2, a header that Tier 2 assigned to a role
\* is assigned to no other role of column_map, whether the other role was
\* resolved by Tier 1 or by Tier 2 (column_map being a function, no role has
\* two headers).
C11_TierTwoHeadersUnshared ==
    AfterTierTwo =>
        \A role \in TierTwoRoles :
            \A other \in DOMAIN column_map \ {role} :
                column_map[other] /= column_map[role]

\* the order of the tiers
TierOrder == <<"exact", "fuzzy 0.6", "fuzzy 0.3", "interactive">>

\* source and target both have a header in map
BothResolved(map) == {"source", "target"} \subseteq DOMAIN map

\* C26: whenever detect_column_mappings has returned, column_map has source
\* and target, every header in it is a header of the mapping table in its
\* original spelling, and apply_transformations does not take the branch that
\* returns the phone-cleaned source table.
C26_ReturnedMapHasEssentialHeaders ==
    ResolutionReturned =>
        /\ BothResolved(column_map)
        /\ \A role \in DOMAIN column_map : column_map[role] \in SeqRange(headers)
        /\ r_pc /= "returned df_clean"

\* apply_transformations went on to the mapping rows with a column_map that
\* the interactive fallback filled, an optional role included
C26_Witness ==
    /\ r_pc = "mapping rows"
    /\ TiersFailed
    /\ DOMAIN column_map \ {"source", "target"} /= {}

\* the assignments of fuzzy_match_columns on the headers at 0.6 and at 0.3
StrictPass == fuzzy_match_columns(RAPIDFUZZ_AVAILABLE, headers, 6)
RelaxedPass == fuzzy_match_columns(RAPIDFUZZ_AVAILABLE, headers, 3)

\* C27: on the headers of every mapping table, each role the pass at 0.6
\* assigns is assigned the same header by the pass at 0.3, and merging the two
\* passes into the column_map of Tier 1 gives the same map in either order.
C27_RelaxedPassKeepsStrictAssignments ==
    (tiers_run = <<"exact">> /\ r_pc \in {"fuzzy", "returned"}) =>
        /\ \A role \in DOMAIN StrictPass :
              role \in DOMAIN RelaxedPass /\ RelaxedPass[role] = StrictPass[role]
        /\ MergeMaps(MergeMaps(column_map, StrictPass), RelaxedPass)
              = MergeMaps(MergeMaps(column_map, RelaxedPass), StrictPass)

\* both passes ran and returned: the pass at 0.6 assigned a role and the pass
\* at 0.3 assigned more roles
C27_Witness ==
    /\ r_pc = "returned"
    /\ tiers_run = <<"exact", "fuzzy 0.6", "fuzzy 0.3">>
    /\ StrictPass /= EmptyMap
    /\ DOMAIN RelaxedPass /= DOMAIN StrictPass

\* column_map after Tier 1 and the fuzzy pass at 0.6
MapAfterFirstPass ==
    MergeMaps(detect_column_mappings_exact(headers),
              fuzzy_match_columns(RAPIDFUZZ_AVAILABLE, headers, 6))

\* a step in which a tier runs
TierRuns == tiers_run' /= tiers_run

\* C16: every step in which a tier runs extends the tiers that have run to a
\* longer initial part of exact, fuzzy 0.6, fuzzy 0.3, interactive; a tier
\* after Tier 1 runs only if Tier 1 left source or target unresolved, the 0.3
\* pass only if one was unresolved after the 0.6 pass, and the interactive
\* fallback only if one was unresolved after the 0.3 pass.
C16_TiersInOrderOnNeed ==
    [][TierRuns =>
         /\ \E n \in 1..Len(TierOrder) :
               Len(tiers_run) < n /\ tiers_run' = SubSeq(TierOrder, 1, n)
         /\ Len(tiers_run') > 1
               => ~BothResolved(detect_column_mappings_exact(headers))
         /\ "fuzzy 0.3" \in SeqRange(tiers_run') => ~BothResolved(MapAfterFirstPass)
         /\ "interactive" \in SeqRange(tiers_run')
               => ~BothResolved(AutomaticMap(RAPIDFUZZ_AVAILABLE, headers))]_vars

\* resolution returned after the 0.3 pass, which filled in what Tier 1 and the
\* 0.6 pass had left unresolved
C16_Witness ==
    /\ r_pc = "returned"
    /\ tiers_run = <<"exact", "fuzzy 0.6", "fuzzy 0.3">>
    /\ BothResolved(column_map)

\* the index of the first pattern of a role that some header contains, 0 if none
EarliestPattern(role) ==
    LET patterns == ExactPatterns(role)
        hits == {k \in 1..Len(patterns) :
                    \E i \in 1..Len(headers) :
                        Contains(NormalisedHeader(headers[i]), patterns[k])}
    IN IF hits = {} THEN 0 ELSE CHOOSE k \in hits : \A j \in hits : k <= j

\* the first header that contains the earliest pattern of a role
FirstHeaderWith(role) ==
    LET pattern == ExactPatterns(role)[EarliestPattern(role)]
        holders == {i \in 1..Len(headers) :
                       Contains(NormalisedHeader(headers[i]), pattern)}
    IN headers[CHOOSE i \in holders : \A j \in holders : i <= j]

\* C17: in the state Tier 1 leaves, a role has a header exactly when some
\* header contains (lowercased and stripped) a pattern of the role, and the
\* header is the first one, in header order, that contains the earliest such
\* pattern of the role's list.
C17_EarliestPatternWins ==
    tiers_run = <<"exact">> =>
        \A role \in Roles :
            IF EarliestPattern(role) = 0
            THEN role \notin DOMAIN exact_map
            ELSE role \in DOMAIN exact_map /\ exact_map[role] = FirstHeaderWith(role)

\* the second header matches an earlier source pattern ('src') than the first
\* header ('beginning'), and Tier 1 gave it the role
C17_Witness ==
    /\ headers = << Beginning, <<"s", "r", "c">> >>
    /\ r_pc /= "start"
    /\ exact_map["source"] = <<"s", "r", "c">>

----------------------------------------------------------------------------
(* apply_transformations as a process, the roles resolved *)

\* df_clean = apply_phone_transformations(df); renamed = df_clean.copy()
\* the derived table started from the source table as it was handed in
CleanPhonesCopiesRawSource ==
    /\ t_pc = "start"
    /\ df_clean' = apply_phone_transformations(source_table)
    /\ renamed' = source_table
    /\ row_pos' = 1
    /\ t_pc' = "rows"
    /\ UNCHANGED <<source_table, mapping_rows, evaluated, conditional_applied,
                   derived_table, otherThanTransform>>

CleanPhones ==
    /\ t_pc = "start"
    /\ df_clean' = apply_phone_transformations(source_table)
    /\ renamed' = df_clean'
    /\ row_pos' = 1
    /\ t_pc' = "rows"
    /\ UNCHANGED <<source_table, mapping_rows, evaluated, conditional_applied,
                   derived_table, otherThanTransform>>

\* one pass of "for _, row in mapping_df.iterrows()"
ProcessRow ==
    /\ t_pc = "rows"
    /\ row_pos <= Len(mapping_rows)
    /\ LET row == mapping_rows[row_pos]
       IN /\ evaluated' = IF ExpressionEvaluated(row, df_clean)
                          THEN evaluated \cup {row_pos} ELSE evaluated
          /\ conditional_applied' = IF ~IsSkipped(row, df_clean)
                                       /\ ConditionalApplied(row, df_clean)
                                    THEN conditional_applied \cup {row_pos}
                                    ELSE conditional_applied
          /\ IF RowRaisesKeyError(row, df_clean, renamed)
             THEN /\ renamed' = AfterSteps123(row, df_clean, renamed)
                  /\ t_pc' = "raised KeyError"
             ELSE /\ renamed' = AfterRow(row, df_clean, renamed)
                  /\ t_pc' = t_pc
    /\ row_pos' = row_pos + 1
    /\ UNCHANGED <<source_table, mapping_rows, df_clean, derived_table,
                   otherThanTransform>>

\* return renamed[target_cols]
ReturnDerived ==
    /\ t_pc = "rows"
    /\ row_pos > Len(mapping_rows)
    /\ LET target_cols == UniqueTargets(mapping_rows, <<>>)
       IN IF \A k \in 1..Len(target_cols) : HasColumn(renamed, target_cols[k])
          THEN /\ derived_table' = SelectColumns(renamed, target_cols)
               /\ t_pc' = "returned"
          ELSE /\ derived_table' = derived_table
               /\ t_pc' = "raised KeyError"
    /\ UNCHANGED <<source_table, mapping_rows, df_clean, renamed, row_pos, evaluated,
                   conditional_applied, otherThanTransform>>

MaxMappingRows == 2

GenderColumn == <<"G", "e", "n", "d", "e", "r">>
TitleColumn == <<"T", "i", "t", "l", "e">>
PhoneColumn == <<"P", "h", "o", "n", "e">>
AbsentColumn == <<"S", "e", "x">>

\* the source tables: a text column with a missing value, a number column,
\* and in the second table a column of phone numbers
SourceTables ==
    { << [name |-> GenderColumn, values |-> <<Str(<<"M">>), Null, Str(<<" ", "F">>)>>],
         [name |-> <<"i", "d">>, values |-> <<Num(1), Num(2), Num(3)>>] >>,
      << [name |-> GenderColumn, values |-> <<Str(<<"F">>), Str(<<"M">>)>>],
         [name |-> PhoneColumn,
          values |-> <<Str(<<"8", "1", "5", "4", "5", "4", "1">>), Null>>] >> }

IfGenderRule ==
    <<"I", "f", " ", "G", "e", "n", "d", "e", "r", " ", "=", "=", " ", "'", "M", "'", " ",
      "t", "h", "e", "n", " ", "'", "M", "a", "l", "e", "'", ",", " ", "e", "l", "s", "e",
      " ", "'", "F", "e", "m", "a", "l", "e", "'">>
IfNanRule ==
    <<"i", "f", " ", "G", "e", "n", "d", "e", "r", " ", "=", "=", " ", "'", "n", "a", "n",
      "'", " ", "t", "h", "e", "n", " ", "'", "U", "'", " ", "e", "l", "s", "e", " ", "'",
      "K", "'">>
UnparsedRule == <<"m", "a", "l", "e", " ", "i", "f", " ", "M">>
GenderExpression ==
    <<"d", "f", "[", "'", "G", "e", "n", "d", "e", "r", "'", "]">>
FailingExpression == <<"1", "/", "0">>

MappingRow(src, tgt, code, conditional, default, required) ==
    [src |-> src, tgt |-> tgt, transformation_code |-> code,
     conditional_mapping |-> conditional, default_value |-> default,
     required |-> required]

\* the mapping rows: every combination of a present or absent source with no,
\* a working or a failing expression and no, a template or an unparsed rule;
\* then rows with a default, a required flag, sentinels, and a target that
\* names a source column
MappingRowPool ==
    { MappingRow(src, TitleColumn, code, conditional, Null, Null) :
        src \in {GenderColumn, AbsentColumn},
        code \in {Null, Str(GenderExpression), Str(FailingExpression)},
        conditional \in {Null, Str(IfGenderRule), Str(UnparsedRule)} }
    \cup
    { MappingRow(AbsentColumn, TitleColumn, Null, Null, Str(<<"0">>), Null),
      MappingRow(AbsentColumn, TitleColumn, Null, Null, Null, Str(<<"Y", "e", "s">>)),
      MappingRow(GenderColumn, TitleColumn, Null, Null, Str(<<"U">>), Str(<<"y", "e", "s">>)),
      MappingRow(AbsentColumn, GenderColumn, Null, Null, Null, Null),
      MappingRow(GenderColumn, TitleColumn, Str(<<"N", "o", "n", "e">>),
                 Str(<<"n", "/", "a">>), Str(<<"n", "u", "l", "l">>), Str(<<"n", "o">>)),
      MappingRow(AbsentColumn, TitleColumn, Str(<<"n", "o", "n", "e">>), Null, Null,
                 Str(<<"y", "e", "s">>)),
      MappingRow(GenderColumn, MissingTarget, Null, Null, Null, Null),
      MappingRow(GenderColumn, AbsentColumn, Null, Null, Str(<<"U">>), Null),
      MappingRow(GenderColumn, TitleColumn, Str(<<"t", "o", "d", "a", "y">>), Null, Null,
                 Null),
      MappingRow(AbsentColumn, GenderColumn, Str(<<"n", "o", "n", "e">>), Null,
                 Str(<<"U">>), Null),
      MappingRow(AbsentColumn, TitleColumn, Str(FailingExpression), Null, Str(<<"0">>),
                 Null),
      MappingRow(GenderColumn, TitleColumn, Str(FailingExpression), Null, Str(<<"0">>),
                 Str(<<"y", "e", "s">>)),
      MappingRow(GenderColumn, TitleColumn, Null, Str(IfNanRule), Null, Null),
      MappingRow(GenderColumn, TitleColumn, Null, Str(IfGenderRule), Str(<<"U">>), Null),
      MappingRow(AbsentColumn, GenderColumn, Str(FailingExpression), Null, Str(<<"U">>),
                 Null),
      MappingRow(AbsentColumn, PhoneColumn, Null, Null, Null, Null) }

\* the rows that follow the first one: they repeat a target, add a second
\* target (one that is a source column, one that is not), or have no target
LaterRowPool ==
    { MappingRow(GenderColumn, TitleColumn, Null, Null, Null, Null),
      MappingRow(AbsentColumn, GenderColumn, Null, Null, Null, Null),
      MappingRow(GenderColumn, AbsentColumn, Null, Null, Str(<<"U">>), Null),
      MappingRow(GenderColumn, MissingTarget, Null, Null, Null, Null) }

\* the mappings of n rows: any row of the pool, then later rows
RECURSIVE MappingsOf(_)
MappingsOf(n) ==
    IF n = 1 THEN {<<row>> : row \in MappingRowPool}
    ELSE {Append(rows, row) : rows \in MappingsOf(n - 1), row \in LaterRowPool}

TransformInit ==
    /\ t_pc = "start"
    /\ source_table \in SourceTables
    /\ mapping_rows \in UNION {MappingsOf(n) : n \in 1..MaxMappingRows}
    /\ df_clean = <<>>
    /\ renamed = <<>>
    /\ row_pos = 0
    /\ evaluated = {}
    /\ conditional_applied = {}
    /\ derived_table = <<>>
    /\ clock = 0
    /\ calls = 0
    /\ previous_table = <<>>
    /\ PhoneIdle
    /\ ValidateIdle
    /\ RolesIdle

TransformNext ==
    \/ CleanPhones
    \/ ProcessRow
    \/ ReturnDerived

SpecTransform == TransformInit /\ [][TransformNext]_vars

\* C4: apply_transformations never aborts: no step of the row loop and not the
\* final column selection raises, whatever rows the mapping holds.
C4_NeverAborts == t_pc /= "raised KeyError"

\* the rows the loop has finished
RowsDone == 1..(row_pos - 1)

\* C5: for every processed row with a present non-sentinel transformation
\* expression, the expression is evaluated exactly when no conditional rule
\* was applied to that row.
C5_ExpressionIffNoConditionalApplied ==
    t_pc \in {"rows", "returned"} =>
        \A k \in RowsDone :
            (/\ ~IsSkipped(mapping_rows[k], df_clean)
             /\ HasExpression(mapping_rows[k]))
            => ((k \in evaluated) <=> (k \notin conditional_applied))

\* the column names of a table, in order
ColumnNamesOf(table) == [k \in 1..Len(table) |-> table[k].name]

\* the first mapping row whose target is name
FirstRowOf(name) ==
    CHOOSE k \in 1..Len(mapping_rows) :
        /\ mapping_rows[k].tgt = name
        /\ \A j \in 1..(k - 1) : mapping_rows[j].tgt /= name

\* C14: when apply_transformations returns, the columns of the derived table
\* are exactly the non-missing targets of the mapping, each once, in the order
\* of their first rows; no other column of the source table is among them.
C14_DerivedColumnsAreTargets ==
    t_pc = "returned" =>
        LET names == ColumnNamesOf(derived_table)
        IN /\ SeqRange(names)
                = {mapping_rows[k].tgt : k \in 1..Len(mapping_rows)} \ {MissingTarget}
           /\ \A i, j \in 1..Len(names) :
                 i < j => /\ names[i] /= names[j]
                          /\ FirstRowOf(names[i]) < FirstRowOf(names[j])

\* a run returned two targets in mapping order although the working table
\* holds them in the other order, next to a source column that is no target
C14_Witness ==
    /\ t_pc = "returned"
    /\ ColumnNamesOf(derived_table) = <<TitleColumn, GenderColumn>>
    /\ ColumnNamesOf(renamed)[1] = GenderColumn
    /\ Len(renamed) > Len(derived_table)

\* the first mapping row
FirstRow == mapping_rows[1]

\* the loop has processed the first mapping row and no other
AfterFirstRow == t_pc /= "start" /\ row_pos = 2

\* processing the first mapping row raised KeyError
FirstRowRaised == RowRaisesKeyError(FirstRow, df_clean, df_clean)

\* source_ref is absent and neither an expression nor a conditional rule is
\* given: each is missing, empty or a sentinel
InertRow(row) ==
    /\ ~HasColumn(df_clean, row.src)
    /\ IsSentinel(logic_code_of(row))
    /\ IsSentinel(conditional_logic_of(row))

\* C22: processing an inert first row leaves the in-progress derived table as
\* it was, the copy of the phone-cleaned source table, and raises nothing.
C22_InertRowIsNoOp ==
    (AfterFirstRow /\ InertRow(FirstRow)) => (~FirstRowRaised /\ renamed = df_clean)

\* the in-progress derived table before the expression of the first row is
\* evaluated: the source copy, with the base copy of the row when its source
\* column exists
BeforeEvaluation ==
    IF HasColumn(df_clean, FirstRow.src)
    THEN SetColumn(df_clean, FirstRow.tgt, Column(df_clean, FirstRow.src))
    ELSE df_clean

\* the expression of the first row is evaluated and raises
FirstExpressionRaises ==
    /\ ExpressionEvaluated(FirstRow, df_clean)
    /\ EvalExpression(logic_code_of(FirstRow), df_clean, BeforeEvaluation).raised

\* C23: when the expression of the first row raises, the row still ends
\* without an error, and the in-progress derived table is the one before the
\* evaluation with, at most, the default filled into the target column.
C23_FailedExpressionKeepsTarget ==
    (AfterFirstRow /\ FirstExpressionRaises) =>
        /\ ~FirstRowRaised
        /\ renamed = IF HasDefault(FirstRow) /\ HasColumn(BeforeEvaluation, FirstRow.tgt)
                     THEN SetColumn(BeforeEvaluation, FirstRow.tgt,
                                    FillNa(Column(BeforeEvaluation, FirstRow.tgt),
                                           default_of(FirstRow)))
                     ELSE BeforeEvaluation

\* the code generated for the conditional rule of the first row
FirstRule == llm_parse_conditional(conditional_logic_of(FirstRow))

\* the first row has a rule of the form  if <field> == 'A' then 'B' else 'C'
\* and its source column exists
FirstRowIsIfThenElse ==
    /\ HasColumn(df_clean, FirstRow.src)
    /\ HasConditional(FirstRow)
    /\ FirstRule.template = "if then else"

\* what the claim gives for one source value: C for a missing value, B for a
\* value whose trimmed text is A, C otherwise
MappedValue(source, x) ==
    IF IsNa(x) THEN Str(FirstRule.else)
    ELSE IF StrStrip(CellStr(source, x)) = FirstRule.condition THEN Str(FirstRule.then)
    ELSE Str(FirstRule.else)

\* C24: after a first row with an if-then-else rule, the target column is as
\* long as the source column, each value is B where the trimmed source text is
\* A and C elsewhere, and a missing source value gives C, whatever the default.
C24_IfThenElseMapsEachValue ==
    (AfterFirstRow /\ FirstRowIsIfThenElse) =>
        LET source == Column(df_clean, FirstRow.src)
        IN /\ ~FirstRowRaised
           /\ HasColumn(renamed, FirstRow.tgt)
           /\ Column(renamed, FirstRow.tgt) =
                  [k \in 1..Len(source) |-> MappedValue(source, source[k])]

\* renamed at the start of the loop pass of row i, when no earlier row raised
RECURSIVE RenamedBefore(_)
RenamedBefore(i) ==
    IF i = 1 THEN df_clean
    ELSE AfterRow(mapping_rows[i - 1], df_clean, RenamedBefore(i - 1))

\* row i is skipped, or its expression fails and no base copy was made
ProducesNothing(i) ==
    LET row == mapping_rows[i]
    IN \/ IsSkipped(row, df_clean)
       \/ /\ ~HasColumn(df_clean, row.src)
          /\ ExpressionEvaluated(row, df_clean)
          /\ EvalExpression(logic_code_of(row), df_clean, RenamedBefore(i)).raised

\* the rows declaring name as their target
RowsDeclaring(name) == {i \in 1..Len(mapping_rows) : mapping_rows[i].tgt = name}

\* name is a source column and a target that no mapping row produces
Unproduced(name) ==
    /\ HasColumn(df_clean, name)
    /\ RowsDeclaring(name) /= {}
    /\ \A i \in RowsDeclaring(name) : ProducesNothing(i)

\* the rows declaring name that run their default fill
RowsFilling(name) ==
    {i \in RowsDeclaring(name) :
        ~IsSkipped(mapping_rows[i], df_clean) /\ HasDefault(mapping_rows[i])}

\* the phone-cleaned source column, its missing values replaced by the default
\* of the first declaring row that runs its default fill
SourceWithDefault(name) ==
    IF RowsFilling(name) = {} THEN Column(df_clean, name)
    ELSE LET first == CHOOSE i \in RowsFilling(name) : \A j \in RowsFilling(name) : i <= j
         IN FillNa(Column(df_clean, name), default_of(mapping_rows[first]))

\* C28 as stated: a returned derived table holds, for every target that names
\* a source column and that no row produces, the values of that phone-cleaned
\* source column.
C28_UnproducedTargetHoldsSourceValues ==
    t_pc = "returned" =>
        \A name \in SeqRange(ColumnNamesOf(df_clean)) :
            Unproduced(name) =>
                /\ HasColumn(derived_table, name)
                /\ Column(derived_table, name) = Column(df_clean, name)

\* C28, amended: a returned derived table holds, for every target that names a
\* source column and that no row produces, the values of that phone-cleaned
\* source column, where a declaring row whose expression failed has a default
\* with the missing values replaced by that default.
C28_UnproducedTargetHoldsSourceOrDefault ==
    t_pc = "returned" =>
        \A name \in SeqRange(ColumnNamesOf(df_clean)) :
            Unproduced(name) =>
                /\ HasColumn(derived_table, name)
                /\ Column(derived_table, name) = SourceWithDefault(name)

\* a run returned a source column that no row produced and no default filled,
\* with values that phone cleaning had changed
C28_Witness ==
    /\ t_pc = "returned"
    /\ \E name \in SeqRange(ColumnNamesOf(df_clean)) :
          /\ Unproduced(name)
          /\ RowsFilling(name) = {}
          /\ Column(derived_table, name) = Column(df_clean, name)
          /\ Column(df_clean, name) /= Column(source_table, name)

----------------------------------------------------------------------------
(* apply_transformations called twice with the same arguments *)

MaxTicks == 1
MaxCalls == 2

\* time passes, within the date
Tick ==
    /\ clock < MaxTicks
    /\ clock' = clock + 1
    /\ UNCHANGED <<calls, previous_table, transformVars, otherThanCalls>>

\* the caller keeps the table a call returned and calls again with the same
\* source table and the same mapping
CallAgain ==
    /\ t_pc = "returned"
    /\ calls + 1 < MaxCalls
    /\ calls' = calls + 1
    /\ previous_table' = derived_table
    /\ t_pc' = "start"
    /\ df_clean' = <<>>
    /\ renamed' = <<>>
    /\ row_pos' = 0
    /\ evaluated' = {}
    /\ conditional_applied' = {}
    /\ derived_table' = <<>>
    /\ UNCHANGED <<clock, source_table, mapping_rows, otherThanCalls>>

TwoCallsNext ==
    \/ CleanPhones
    \/ ProcessRow
    \/ ReturnDerived
    \/ Tick
    \/ CallAgain

SpecTwoCalls == TransformInit /\ [][TwoCallsNext]_vars

\* C18: a second call with the same source table and the same mapping, at the
\* same date, returns the table the first call returned.
C18_SecondCallReturnsSameTable ==
    (calls > 0 /\ t_pc = "returned") => derived_table = previous_table

====
